---------------------------- MODULE Spec2Model ----------------------------
(***************************************************************************)
(* Model of the asynchronous-task clients of the Bailian example scripts:  *)
(*   BailianTextToImageV2     (bailian_text2image_image_synthesis_v2.py)   *)
(*   BailianVideoGeneration   (bailian_video_generation_video_synthesis.py)*)
(*   BailianImageGeneration   (bailian_multimodal_generation_qwen_image.py)*)
(* One behaviour is one call by one caller: either wait_for_completion on  *)
(* a given task id, or generate_image / generate_video (submit + wait), or *)
(* the synchronous qwen-image generate_image.  The remote service is the   *)
(* environment: every network call takes 0..MaxLatency seconds and answers *)
(* with one of the responses the wire protocol allows.                     *)
(* Two further specifications follow a program that constructs clients and *)
(* lets them issue requests (ClientSpec), and example_batch_processing of  *)
(* the video script (BatchSpec).                                           *)
(* Exception texts are sequences: the fixed prefix of the f-string as one  *)
(* element, followed by the interpolated value.                            *)
(***************************************************************************)
EXTENDS Integers, Sequences, FiniteSets, TLC

VARIABLES
    family,          \* which client class: "t2i", "video" or "qwen"
    entry,           \* what the caller invoked: "wait", "generate", "submit"
                     \* (create_*_task alone) or "batch"
    pc,              \* position in the called method
    now,             \* time.time(), in seconds
    start_time,      \* wait_for_completion's local start_time
    max_wait_time,   \* argument of wait_for_completion / generate_*
    check_interval,  \* argument of wait_for_completion
    task_id,         \* the task id wait_for_completion polls
    prompt,          \* the prompt of the request, as its length len(prompt)
    poller,          \* the fake status endpoint answering query_task_result
    result,          \* wait_for_completion's local `result` (last poll body)
    outcome,         \* how the called method ended: return value or exception
    qret,            \* the dict returned by qwen-image generate_image
    polls,           \* number of GET /tasks/{id} calls issued
    sleeps,          \* number of time.sleep(check_interval) calls made
    submits,         \* number of POSTs to the synthesis endpoint
    netCalls,        \* all outbound calls (POST, GET, SDK call)
    polledIds,       \* the task ids that appeared in poll URLs
    submitted,       \* the task id the submit response carried (or NoTask)
    netFailure,      \* cause of the network failure a call met ("" if none)
    request,         \* the other arguments of the call: negative_prompt, size, n
    sent,            \* the JSON payload of the POST (posted = FALSE: none sent)
    remote,          \* the state of the task on the service, behind the poll
    given,           \* the optional timing arguments the caller passed
    environ,         \* os.environ["DASHSCOPE_API_KEY"]
    clients,         \* the client instances the program holds, by variable
    dashscope_api_key,  \* the SDK's module attribute dashscope.api_key
    lastReq,         \* the latest request issued: by whom, where, with which key
    lastCtor,        \* the latest constructor call: its argument and how it ended
    batch,           \* example_batch_processing: its loops and its task_ids list
    video,           \* a call of create_video_task with keyword arguments
    tts,             \* a call of the TTS client's synthesize_speech
    upload,          \* a call of the upload client
    checker          \* a run of EnvironmentChecker

\* The state of one call, and the state of the program around it
callVars == <<family, entry, pc, now, start_time, max_wait_time,
              check_interval, task_id, prompt, poller, result, outcome, qret,
              polls, sleeps, submits, netCalls, polledIds, submitted,
              netFailure, request, sent, remote, given>>
clientVars == <<environ, clients, dashscope_api_key, lastReq, lastCtor>>
sideVars == <<video, tts, upload, checker>>
vars == <<callVars, clientVars, batch, sideVars>>

-----------------------------------------------------------------------------
(* Bounds of the model *)

MaxWait == 4        \* max_wait_time ranges over 0..MaxWait (in check steps for generate)
MaxInterval == 2    \* check_interval ranges over 1..MaxInterval
MaxLatency == 1     \* a network call takes 0..MaxLatency seconds
MaxRuns == 2        \* a scripted poller answers RUNNING 0..MaxRuns times first
MaxMsgLen == 1      \* a server message has 0..MaxMsgLen characters
MaxPolls == 3      \* generate_* is given a ceiling of 0..MaxPolls default intervals

(* Program constants *)

MAX_PROMPT == 800            \* "提示词长度不能超过800字符"
MAX_NEGATIVE_PROMPT == 500   \* "反向提示词长度不能超过500字符"
T2I_CHECK_INTERVAL == 5      \* default check_interval of the image client
VIDEO_CHECK_INTERVAL == 30   \* default check_interval of the video client
T2I_MAX_WAIT == 300          \* default max_wait_time of the image client
VIDEO_MAX_WAIT == 900        \* default max_wait_time of the video client


-----------------------------------------------------------------------------
(* Values *)

Families == {"t2i", "video", "qwen"}
TaskIds == {"T1", "T2"}
NoTask == "none"
Causes == {"ConnectionError", "HTTPError"}       \* requests.exceptions.RequestException
Payloads == {"http://x/1.png", "http://x/2.png"} \* output.results / output.video_url
Alphabet == {"a", "b"}

RECURSIVE StringsUpTo(_)
StringsUpTo(k) ==
    IF k = 0 THEN {<<>>}
    ELSE LET shorter == StringsUpTo(k - 1)
         IN  shorter \cup {Append(s, c) : s \in shorter, c \in Alphabet}

Messages == StringsUpTo(MaxMsgLen)

(* The body of an HTTP answer of GET /tasks/{id}, or the exception raised   *)
(* by requests:  {output: {task_status, message?, results?|video_url?}}.    *)
Resp(k, c, o, hs, s, hm, m, p) ==
    [kind |-> k, cause |-> c, hasOutput |-> o, hasStatus |-> hs,
     task_status |-> s, hasMessage |-> hm, message |-> m, payload |-> p]

NoResp == Resp("none", "", FALSE, FALSE, "", FALSE, <<>>, "")
TransportError(c) == Resp("error", c, FALSE, FALSE, "", FALSE, <<>>, "")
NoOutput == Resp("body", "", FALSE, FALSE, "", FALSE, <<>>, "")
NoStatus == Resp("body", "", TRUE, FALSE, "", FALSE, <<>>, "")
Status(s) == Resp("body", "", TRUE, TRUE, s, FALSE, <<>>, "")
Running == Status("RUNNING")
Succeeded(p) == Resp("body", "", TRUE, TRUE, "SUCCEEDED", FALSE, <<>>, p)
Failed(m) == Resp("body", "", TRUE, TRUE, "FAILED", TRUE, m, "")
FailedNoMessage == Status("FAILED")

PollResponses ==
    {TransportError(c) : c \in Causes}
    \cup {NoOutput, NoStatus, Status("PENDING"), Running, Status("CANCELED")}
    \cup {Succeeded(p) : p \in Payloads}
    \cup {Failed(m) : m \in Messages}
    \cup {FailedNoMessage}

(* The task on the service.  It stays in a non-terminal state (PENDING or    *)
(* RUNNING, written RUNNING here) until it becomes SUCCEEDED or FAILED, and  *)
(* a terminal state is never left.  A poll that carries a task_status       *)
(* reports the state the task is in; a transport error or a body without    *)
(* output or task_status reports nothing.                                   *)
RemoteStates == {"RUNNING", "SUCCEEDED", "FAILED"}
Progress(s) == IF s = "RUNNING" THEN RemoteStates ELSE {s}
Reports(r, s) ==
    IF r.kind = "body" /\ r.hasOutput /\ r.hasStatus
    THEN IF r.task_status \in {"SUCCEEDED", "FAILED"} THEN s = r.task_status
         ELSE s = "RUNNING"
    ELSE TRUE

(* The fake status endpoint.  A free poller may answer anything at every    *)
(* call; a scripted one answers RUNNING n times and `fin` ever after.       *)
FreePoller == [free |-> TRUE, n |-> 0, fin |-> NoResp]
ScriptedPollers == [free : {FALSE}, n : 0..MaxRuns, fin : PollResponses]
Pollers == {FreePoller} \cup ScriptedPollers

\* The pollers driving a wait that runs to the default ceiling: the same
\* status, RUNNING or a terminal one, at every poll.
SteadyPollers ==
    {p \in ScriptedPollers :
        p.n = 0 /\ p.fin.hasStatus
                /\ p.fin.task_status \in {"RUNNING", "SUCCEEDED", "FAILED"}}

Answers(p, i) ==
    IF p.free THEN PollResponses
    ELSE IF i <= p.n THEN {Running} ELSE {p.fin}

\* The i-th poll can be answered for a task now in state s
CanAnswer(p, i, s) ==
    \E s2 \in Progress(s), r \in Answers(p, i) : Reports(r, s2)

\* The seconds a request may take.  The batch example is followed over an
\* instantaneous network: what is asked of it is the order of its requests.
Latencies == IF entry = "batch" THEN {0} ELSE 0..MaxLatency

(* How a call ended. *)
NoOutcome == [kind |-> "none", exc |-> "", text |-> <<>>, value |-> NoResp]
Return(v) == [kind |-> "return", exc |-> "", text |-> <<>>, value |-> v]
Raise(e, t) == [kind |-> "raise", exc |-> e, text |-> t, value |-> NoResp]


-----------------------------------------------------------------------------
(* query_task_result and wait_for_completion (identical in both clients)   *)

\* The fixed parts of the exception texts, in English (string literals are
\* kept ASCII): "查询任务失败: ", "任务失败: ", "任务超时，等待时间超过", "秒",
\* and the default message "未知错误".
QUERY_FAILED == "query failed: "
TASK_FAILED == "task failed: "
TASK_TIMEOUT == "task timed out, waited more than "
SECONDS == " seconds"
UNKNOWN_ERROR == <<"unknown error">>

\* Mutant: a failed request is swallowed and read as an empty body.
QueryTaskResultSwallows(r) ==
    IF r.kind = "error"
    THEN [kind |-> "return", exc |-> "", text |-> <<>>,
          value |-> [kind |-> "body", cause |-> "", hasOutput |-> FALSE,
                     hasStatus |-> FALSE, task_status |-> "",
                     hasMessage |-> FALSE, message |-> <<>>, payload |-> ""]]
    ELSE [kind |-> "return", exc |-> "", text |-> <<>>, value |-> r]

\* query_task_result: the parsed body, or RequestException rewrapped.
QueryTaskResult(r) ==
    IF r.kind = "error"
    THEN Raise("Exception", <<QUERY_FAILED, r.cause>>)
    ELSE Return(r)

\* result["output"].get("task_status", "UNKNOWN")
TaskStatus(r) == IF r.hasStatus THEN r.task_status ELSE "UNKNOWN"

\* Mutant: the server's message is ignored.
ErrorMsgDefault(r) == UNKNOWN_ERROR

\* Mutant: a missing message gives an empty reason.
ErrorMsgNoDefault(r) == IF r.hasMessage THEN r.message ELSE <<>>

\* result["output"].get("message", "未知错误")
ErrorMsg(r) == IF r.hasMessage THEN r.message ELSE UNKNOWN_ERROR

\* Exception(f"任务失败: {error_msg}")
TaskFailedError(m) == Raise("Exception", <<TASK_FAILED>> \o m)

\* Exception(f"任务超时，等待时间超过{max_wait_time}秒")
TimeoutError(mwt) == Raise("Exception", <<TASK_TIMEOUT, ToString(mwt), SECONDS>>)

\* Mutants of the loop condition: a deadline one second early, and an
\* inclusive comparison.
StillWaitingEarly(t, start, mwt) == t - start < mwt - 1
StillWaitingInclusive(t, start, mwt) == t - start <= mwt

\* while time.time() - start_time < max_wait_time
StillWaiting(t, start, mwt) == t - start < mwt

\* Mutants of the dispatch: FAILED is not recognised as terminal; an
\* unrecognized status is fatal; a body without output is fatal; only the
\* status of the SUCCEEDED body is returned.
DispatchIgnoresFailed(r) ==
    IF r.hasOutput /\ TaskStatus(r) = "SUCCEEDED"
    THEN [pc |-> "done", outcome |-> Return(r)]
    ELSE [pc |-> "sleep", outcome |-> NoOutcome]

\* Mutant: a SUCCEEDED status is waited on like RUNNING.
DispatchSucceededWaits(r) ==
    IF r.hasOutput /\ TaskStatus(r) = "FAILED"
    THEN [pc |-> "done", outcome |-> TaskFailedError(ErrorMsg(r))]
    ELSE [pc |-> "sleep", outcome |-> NoOutcome]

\* Mutant: after a status that is neither terminal nor PENDING/RUNNING the
\* loop goes straight back to its condition, without the sleep.
DispatchUnknownSkipsSleep(r) ==
    IF r.hasOutput
    THEN CASE TaskStatus(r) = "SUCCEEDED" ->
                [pc |-> "done", outcome |-> Return(r)]
           [] TaskStatus(r) = "FAILED" ->
                [pc |-> "done", outcome |-> TaskFailedError(ErrorMsg(r))]
           [] TaskStatus(r) \in {"PENDING", "RUNNING"} ->
                [pc |-> "sleep", outcome |-> NoOutcome]
           [] OTHER ->
                [pc |-> "check", outcome |-> NoOutcome]
    ELSE [pc |-> "sleep", outcome |-> NoOutcome]

DispatchUnknownFatal(r) ==
    IF r.hasOutput
    THEN CASE TaskStatus(r) = "SUCCEEDED" ->
                [pc |-> "done", outcome |-> Return(r)]
           [] TaskStatus(r) = "FAILED" ->
                [pc |-> "done", outcome |-> TaskFailedError(ErrorMsg(r))]
           [] TaskStatus(r) \in {"PENDING", "RUNNING"} ->
                [pc |-> "sleep", outcome |-> NoOutcome]
           [] OTHER ->
                [pc |-> "done",
                 outcome |-> Raise("Exception", <<"unknown status: ", TaskStatus(r)>>)]
    ELSE [pc |-> "sleep", outcome |-> NoOutcome]

DispatchMissingOutputFatal(r) ==
    IF r.hasOutput
    THEN CASE TaskStatus(r) = "SUCCEEDED" ->
                [pc |-> "done", outcome |-> Return(r)]
           [] TaskStatus(r) = "FAILED" ->
                [pc |-> "done", outcome |-> TaskFailedError(ErrorMsg(r))]
           [] OTHER ->
                [pc |-> "sleep", outcome |-> NoOutcome]
    ELSE [pc |-> "done", outcome |-> Raise("Exception", <<"malformed response">>)]

DispatchStripsPayload(r) ==
    IF r.hasOutput
    THEN CASE TaskStatus(r) = "SUCCEEDED" ->
                [pc |-> "done", outcome |-> Return(Status("SUCCEEDED"))]
           [] TaskStatus(r) = "FAILED" ->
                [pc |-> "done", outcome |-> TaskFailedError(ErrorMsg(r))]
           [] OTHER ->
                [pc |-> "sleep", outcome |-> NoOutcome]
    ELSE [pc |-> "sleep", outcome |-> NoOutcome]

\* The body of the while loop after query_task_result returned body r:
\* where the method goes next, and how it ends if it ends.
Dispatch(r) ==
    IF r.hasOutput
    THEN CASE TaskStatus(r) = "SUCCEEDED" ->
                [pc |-> "done", outcome |-> Return(r)]
           [] TaskStatus(r) = "FAILED" ->
                [pc |-> "done", outcome |-> TaskFailedError(ErrorMsg(r))]
           [] TaskStatus(r) \in {"PENDING", "RUNNING"} ->
                [pc |-> "sleep", outcome |-> NoOutcome]
           [] OTHER ->
                [pc |-> "sleep", outcome |-> NoOutcome]
    ELSE [pc |-> "sleep", outcome |-> NoOutcome]

\* start_time = time.time()
WaitStart ==
    /\ pc = "wait"
    /\ start_time' = now
    /\ pc' = "check"
    /\ UNCHANGED <<given, clientVars, batch, sideVars>>
    /\ UNCHANGED <<family, entry, now, max_wait_time, check_interval, task_id,
                   prompt, poller, result, outcome, qret, polls, sleeps,
                   submits, netCalls, polledIds, submitted,
                   netFailure>>
    /\ UNCHANGED <<request, sent, remote>>

\* the while condition; falling out of the loop raises the timeout
LoopCheck ==
    /\ pc = "check"
    /\ IF StillWaiting(now, start_time, max_wait_time)
       THEN /\ pc' = "poll"
            /\ UNCHANGED outcome
       ELSE /\ pc' = "done"
            /\ outcome' = TimeoutError(max_wait_time)
    /\ UNCHANGED <<given, clientVars, batch, sideVars>>
    /\ UNCHANGED <<family, entry, now, start_time, max_wait_time,
                   check_interval, task_id, prompt, poller, result, qret,
                   polls, sleeps, submits, netCalls, polledIds, submitted,
                   netFailure>>
    /\ UNCHANGED <<request, sent, remote>>

\* result = self.query_task_result(task_id), then the status dispatch
Poll ==
    /\ pc = "poll"
    /\ \E s \in Progress(remote), r \in Answers(poller, polls + 1),
          d \in Latencies :
         LET q == QueryTaskResult(r) IN
         /\ Reports(r, s)
         /\ remote' = s
         /\ now' = now + d
         /\ polls' = polls + 1
         /\ netCalls' = netCalls + 1
         /\ polledIds' = polledIds \cup {task_id}
         /\ netFailure' = IF r.kind = "error" THEN r.cause ELSE netFailure
         /\ IF q.kind = "raise"
            THEN /\ pc' = "done"
                 /\ outcome' = q
                 /\ UNCHANGED result
            ELSE /\ result' = q.value
                 /\ pc' = Dispatch(q.value).pc
                 /\ outcome' = Dispatch(q.value).outcome
    /\ UNCHANGED <<given, clientVars, batch, sideVars>>
    /\ UNCHANGED <<family, entry, start_time, max_wait_time, check_interval,
                   task_id, prompt, poller, qret, sleeps, submits, submitted>>
    /\ UNCHANGED <<request, sent>>

\* time.sleep(check_interval)
Sleep ==
    /\ pc = "sleep"
    /\ now' = now + check_interval
    /\ sleeps' = sleeps + 1
    /\ pc' = "check"
    /\ \E s \in Progress(remote) :
         /\ CanAnswer(poller, polls + 1, s)
         /\ remote' = s
    /\ UNCHANGED <<given, clientVars, batch, sideVars>>
    /\ UNCHANGED <<family, entry, start_time, max_wait_time, check_interval,
                   task_id, prompt, poller, result, outcome, qret, polls,
                   submits, netCalls, polledIds, submitted,
                   netFailure>>
    /\ UNCHANGED <<request, sent>>


-----------------------------------------------------------------------------
(* create_image_task / create_video_task and generate_image / generate_video *)

REQUEST_FAILED == "request failed: "       \* "请求失败: "
CREATE_FAILED == "task creation failed: "  \* "任务创建失败: "

\* The answer to the POST: a RequestException, or a 200 body that may or may
\* not hold output.task_id.
SubmitResp(k, c, o, ht, t) ==
    [kind |-> k, cause |-> c, hasOutput |-> o, hasTaskId |-> ht, task_id |-> t]

SubmitResponses ==
    {SubmitResp("error", c, FALSE, FALSE, NoTask) : c \in Causes}
    \cup {SubmitResp("body", "", FALSE, FALSE, NoTask),
          SubmitResp("body", "", TRUE, FALSE, NoTask)}
    \cup {SubmitResp("body", "", TRUE, TRUE, t) : t \in TaskIds}

\* The prompt lengths a caller may pass: both sides of the documented limit.
PromptLens == {MAX_PROMPT, MAX_PROMPT + 1}

\* Mutant: a 200 body without output.task_id yields an empty handle
\* instead of an exception.
CreateTaskResultLenient(s) ==
    IF s.kind = "error"
    THEN [ok |-> FALSE, task_id |-> NoTask,
          outcome |-> Raise("Exception", <<REQUEST_FAILED, s.cause>>)]
    ELSE [ok |-> TRUE, task_id |-> s.task_id, outcome |-> NoOutcome]

\* Mutant: only "output" is looked for, and output.get("task_id") returned.
CreateTaskResultOutputOnly(s) ==
    IF s.kind = "error"
    THEN [ok |-> FALSE, task_id |-> NoTask,
          outcome |-> Raise("Exception", <<REQUEST_FAILED, s.cause>>)]
    ELSE IF s.hasOutput
    THEN [ok |-> TRUE, task_id |-> s.task_id, outcome |-> NoOutcome]
    ELSE [ok |-> FALSE, task_id |-> NoTask,
          outcome |-> Raise("Exception", <<CREATE_FAILED, "{}">>)]

\* The try block of create_*_task: the task id, or the exception raised.
CreateTaskResult(s) ==
    IF s.kind = "error"
    THEN [ok |-> FALSE, task_id |-> NoTask,
          outcome |-> Raise("Exception", <<REQUEST_FAILED, s.cause>>)]
    ELSE IF s.hasOutput /\ s.hasTaskId
    THEN [ok |-> TRUE, task_id |-> s.task_id, outcome |-> NoOutcome]
    ELSE [ok |-> FALSE, task_id |-> NoTask,
          outcome |-> Raise("Exception",
                            <<CREATE_FAILED,
                              IF s.hasOutput THEN "{output: {}}" ELSE "{}">>)]

\* wait_for_completion's default check_interval, which generate_* leaves as is
\* Mutant: the video client polls at the image client's interval.
DefaultCheckIntervalShort(f) == T2I_CHECK_INTERVAL

\* max_wait_time: int = 300 (image) / 900 (video)
DefaultMaxWait(f) ==
    IF f = "video" THEN VIDEO_MAX_WAIT ELSE T2I_MAX_WAIT

DefaultCheckInterval(f) ==
    IF f = "video" THEN VIDEO_CHECK_INTERVAL ELSE T2I_CHECK_INTERVAL

\* negative_prompt is None, or a string given by its length
NoneValue == [none |-> TRUE, len |-> 0]
Text(l) == [none |-> FALSE, len |-> l]
\* Python truthiness of an Optional[str]: `if negative_prompt:`
Truthy(np) == ~np.none /\ np.len > 0

NoPayload ==
    [posted |-> FALSE, prompt |-> 0, has_negative_prompt |-> FALSE,
     negative_prompt |-> NoneValue, has_size |-> FALSE, size |-> "",
     has_n |-> FALSE, n |-> 0]

\* Mutant: input.negative_prompt is written whatever the argument.
T2IPayloadAlwaysNegative(promptLen, req) ==
    [posted |-> TRUE, prompt |-> promptLen,
     has_negative_prompt |-> TRUE,
     negative_prompt |-> req.negative_prompt,
     has_size |-> TRUE, size |-> req.size,
     has_n |-> TRUE, n |-> req.n]

\* create_image_task: data = {model, input: {prompt}, parameters: {size, n}}
\* plus input.negative_prompt when one was given
T2IPayload(promptLen, req) ==
    [posted |-> TRUE, prompt |-> promptLen,
     has_negative_prompt |-> Truthy(req.negative_prompt),
     negative_prompt |-> IF Truthy(req.negative_prompt)
                         THEN req.negative_prompt ELSE NoneValue,
     has_size |-> TRUE, size |-> req.size,
     has_n |-> TRUE, n |-> req.n]

\* create_video_task called without keyword arguments:
\* data = {model, input: {function, prompt}, parameters: {}}
VideoPayload(promptLen, req) ==
    [posted |-> TRUE, prompt |-> promptLen, has_negative_prompt |-> FALSE,
     negative_prompt |-> NoneValue, has_size |-> FALSE, size |-> "",
     has_n |-> FALSE, n |-> 0]

\* A call of create_*_task that returned: the handle is in task_id.
ReturnHandle == [kind |-> "return", exc |-> "", text |-> <<>>, value |-> NoResp]

\* generate_*: task_id = self.create_*_task(...), then the call
\* self.wait_for_completion(task_id, max_wait_time).  create_*_task builds
\* the payload and posts it: the prompt is sent whatever its length.
CreateTask ==
    /\ pc = "submit"
    /\ family \in {"t2i", "video"}
    /\ \E s \in SubmitResponses, d \in Latencies :
         LET c == CreateTaskResult(s) IN
         /\ now' = now + d
         /\ submits' = submits + 1
         /\ netCalls' = netCalls + 1
         /\ submitted' = s.task_id
         /\ sent' = IF family = "t2i" THEN T2IPayload(prompt, request)
                    ELSE VideoPayload(prompt, request)
         /\ netFailure' = IF s.kind = "error" THEN s.cause ELSE netFailure
         /\ IF c.ok
            THEN /\ task_id' = c.task_id
                 /\ remote' = "RUNNING"
                 /\ IF entry = "generate"
                    THEN /\ check_interval' = DefaultCheckInterval(family)
                         /\ pc' = "wait"
                         /\ UNCHANGED outcome
                    ELSE /\ pc' = "done"
                         /\ outcome' = ReturnHandle
                         /\ UNCHANGED check_interval
            ELSE /\ pc' = "done"
                 /\ outcome' = c.outcome
                 /\ UNCHANGED <<task_id, check_interval, remote>>
    /\ UNCHANGED <<given, clientVars, batch, sideVars>>
    /\ UNCHANGED <<family, entry, start_time, max_wait_time, prompt, poller,
                   result, qret, polls, sleeps, polledIds, request>>

-----------------------------------------------------------------------------
(* BailianImageGeneration.generate_image (qwen-image, synchronous SDK call) *)

QwenSizes == {"1664*928", "1472*1140", "1328*1328", "1140*1472", "928*1664"}
SizeInputs == {"1328*1328", "1024*1024"}
NegativeLens == {0, MAX_NEGATIVE_PROMPT, MAX_NEGATIVE_PROMPT + 1}
CountInputs == {1, 2}

\* The argument checks, in order: the ValueError text, or <<>> when all pass.
QwenValidate(promptLen, negLen, size, n) ==
    IF promptLen > MAX_PROMPT THEN <<"prompt longer than 800 characters">>
    ELSE IF negLen > MAX_NEGATIVE_PROMPT
    THEN <<"negative prompt longer than 500 characters">>
    ELSE IF size \notin QwenSizes THEN <<"unsupported size: ", size>>
    ELSE IF n # 1 THEN <<"only 1 image is supported">>
    ELSE <<>>

\* parameters = {size, n, prompt_extend, watermark} plus negative_prompt
\* when it is non-empty (prompt_extend, watermark and seed at their defaults)
QwenParameters(negLen, size, n) ==
    [size |-> size, n |-> n, prompt_extend |-> TRUE, watermark |-> FALSE,
     has_negative_prompt |-> negLen > 0, negative_prompt |-> negLen]

\* What MultiModalConversation.call is given: messages (the prompt) and
\* parameters
QwenPayload(promptLen, params) ==
    [posted |-> TRUE, prompt |-> promptLen,
     has_negative_prompt |-> params.has_negative_prompt,
     negative_prompt |-> IF params.has_negative_prompt
                         THEN Text(params.negative_prompt) ELSE NoneValue,
     has_size |-> TRUE, size |-> params.size,
     has_n |-> TRUE, n |-> params.n]

NoParameters ==
    [size |-> "", n |-> 0, prompt_extend |-> FALSE, watermark |-> FALSE,
     has_negative_prompt |-> FALSE, negative_prompt |-> 0]

\* What MultiModalConversation.call gave, by the first check of the try
\* block it fails (or "image": a content list with an image entry).
QwenStages ==
    {"exception", "not_ok", "no_output", "no_choices", "empty_choices",
     "no_message", "no_content", "empty_content", "content_not_list",
     "no_image", "image"}
ImageUrls == {"", "http://x/1.png"}
\* str(e) of an exception the SDK call raises: whatever its author gave it,
\* the empty string for an exception constructed without arguments
ExceptionTexts == {"", "connection refused"}
QwenResponses ==
    {[stage |-> st, image_url |-> "", text |-> ""] :
        st \in QwenStages \ {"image", "exception"}}
    \cup {[stage |-> "exception", image_url |-> "", text |-> t] :
             t \in ExceptionTexts}
    \cup {[stage |-> "image", image_url |-> u, text |-> ""] : u \in ImageUrls}

\* The try block ends in the except clause: some check raised, or the call
QwenFails(r) == ~(r.stage = "image" /\ r.image_url # "")

\* str(e) of the ValueError each check raises (or of the SDK's exception)
QwenError(r) ==
    CASE r.stage = "exception" -> r.text
      [] r.stage = "not_ok" -> "API call failed"
      [] r.stage \in {"no_output", "no_choices", "empty_choices"} ->
            "malformed response: no choices"
      [] r.stage \in {"no_message", "no_content"} ->
            "malformed response: no message.content"
      [] r.stage \in {"empty_content", "content_not_list"} ->
            "malformed response: bad content"
      [] r.stage = "no_image" -> "no image URL in response"
      [] r.stage = "image" /\ r.image_url = "" -> "no image URL in response"
      [] OTHER -> ""

NoQret ==
    [returned |-> FALSE, success |-> FALSE, image_url |-> "", error |-> "",
     parameters_used |-> NoParameters]

\* Mutant: the first image entry is returned even when it is empty.
QwenResultAnyImage(r, params) ==
    IF r.stage = "image"
    THEN [returned |-> TRUE, success |-> TRUE, image_url |-> r.image_url,
          error |-> "", parameters_used |-> params]
    ELSE [returned |-> TRUE, success |-> FALSE, image_url |-> "",
          error |-> QwenError(r), parameters_used |-> NoParameters]

\* The dict generate_image returns after the SDK call
QwenResult(r, params) ==
    IF ~QwenFails(r)
    THEN [returned |-> TRUE, success |-> TRUE, image_url |-> r.image_url,
          error |-> "", parameters_used |-> params]
    ELSE [returned |-> TRUE, success |-> FALSE, image_url |-> "",
          error |-> QwenError(r), parameters_used |-> NoParameters]

QwenGenerateImage ==
    /\ pc = "qwen"
    /\ LET negLen == request.negative_prompt.len
           size == request.size
           n == request.n
           invalid == QwenValidate(prompt, negLen, size, n) IN
         IF invalid # <<>>
         THEN /\ outcome' = Raise("ValueError", invalid)
              /\ UNCHANGED <<now, netCalls, qret, netFailure, sent>>
         ELSE \E r \in QwenResponses, d \in 0..MaxLatency :
                /\ now' = now + d
                /\ netCalls' = netCalls + 1
                /\ sent' = QwenPayload(prompt, QwenParameters(negLen, size, n))
                /\ qret' = QwenResult(r, QwenParameters(negLen, size, n))
                /\ netFailure' = IF r.stage = "exception"
                                  THEN "Exception" ELSE netFailure
                /\ UNCHANGED outcome
    /\ pc' = "done"
    /\ UNCHANGED <<given, clientVars, batch, sideVars>>
    /\ UNCHANGED <<family, entry, start_time, max_wait_time, check_interval,
                   task_id, prompt, poller, result, polls, sleeps, submits,
                   polledIds, submitted, request, remote>>

-----------------------------------------------------------------------------
(* Construction of the clients, and the credential their requests carry *)

\* An api key: None, the empty string, or a key
NoKey == "None"
ApiKeyArgs == {NoKey, "", "k1", "k2"}
EnvValues == {NoKey, "", "kE"}
KeyTruthy(k) == k \notin {NoKey, ""}

\* Mutant: the environment variable wins over the argument.
PyOrEnvFirst(a, b) == IF KeyTruthy(b) THEN b ELSE a

\* api_key or os.getenv("DASHSCOPE_API_KEY")
PyOr(a, b) == IF KeyTruthy(a) THEN a ELSE b

\* The variables of the program that hold a client
Instances == {"a", "b"}

SDK_ENDPOINT == "dashscope"
QUERY_URL == "https://dashscope.aliyuncs.com/api/v1/tasks"
BaseUrl(f) ==
    CASE f = "t2i" ->
           "https://dashscope.aliyuncs.com/api/v1/services/aigc/text2image/image-synthesis"
      [] f = "video" ->
           "https://dashscope.aliyuncs.com/api/v1/services/aigc/video-generation/video-synthesis"
      [] OTHER -> SDK_ENDPOINT

NoClient ==
    [cls |-> "none", api_key |-> NoKey, base_url |-> "", query_url |-> "",
     authorization |-> NoKey]

\* The attributes __init__ sets; authorization is the key of the Bearer header
NewClient(f, key) ==
    [cls |-> f, api_key |-> key, base_url |-> BaseUrl(f),
     query_url |-> IF f = "qwen" THEN SDK_ENDPOINT ELSE QUERY_URL,
     authorization |-> key]

NoReq == [by |-> "none", kind |-> "none", url |-> "", api_key |-> NoKey]
NoCtor == [var |-> "none", arg |-> NoKey, env |-> NoKey, raised |-> FALSE]

\* v = BailianTextToImageV2(arg) / BailianVideoGeneration(arg) /
\* BailianImageGeneration(arg); a ValueError leaves v unbound
Construct ==
    /\ \E v \in Instances, f \in Families, arg \in ApiKeyArgs :
         LET key == PyOr(arg, environ) IN
         /\ clients[v] = NoClient
         /\ lastCtor' = [var |-> v, arg |-> arg, env |-> environ,
                         raised |-> ~KeyTruthy(key)]
         /\ IF KeyTruthy(key)
            THEN /\ clients' = [clients EXCEPT ![v] = NewClient(f, key)]
                 /\ dashscope_api_key' =
                        IF f = "qwen" THEN key ELSE dashscope_api_key
            ELSE UNCHANGED <<clients, dashscope_api_key>>
    /\ UNCHANGED <<environ, lastReq, callVars, batch, sideVars>>

\* DASHSCOPE_API_KEY is set, emptied or unset in the process environment
SetEnviron ==
    /\ \E e \in EnvValues \ {environ} : environ' = e
    /\ UNCHANGED <<clients, dashscope_api_key, lastReq, lastCtor, callVars, batch, sideVars>>

\* requests.post(self.base_url, headers=self.headers, ...) of create_*_task
\* and requests.get(f"{self.query_url}/{task_id}", headers=self.headers)
Request ==
    /\ \E v \in Instances, kind \in {"submit", "poll"} :
         /\ clients[v].cls \in {"t2i", "video"}
         /\ lastReq' = [by |-> v, kind |-> kind,
                        url |-> IF kind = "submit" THEN clients[v].base_url
                                ELSE clients[v].query_url,
                        api_key |-> clients[v].authorization]
    /\ UNCHANGED <<environ, clients, dashscope_api_key, lastCtor, callVars, batch, sideVars>>

\* MultiModalConversation.call(model=..., messages=..., parameters=...):
\* no api_key is passed, the SDK takes the module attribute
QwenCall ==
    /\ \E v \in Instances :
         /\ clients[v].cls = "qwen"
         /\ lastReq' = [by |-> v, kind |-> "call", url |-> SDK_ENDPOINT,
                        api_key |-> dashscope_api_key]
    /\ UNCHANGED <<environ, clients, dashscope_api_key, lastCtor, callVars, batch, sideVars>>

-----------------------------------------------------------------------------
(* example_batch_processing: create every task, then wait for each *)

NumTasks == 2     \* len(tasks)
BATCH_PROMPT == 19   \* len() of the first task's prompt

NoBatch ==
    [phase |-> "none", i |-> 0, k |-> 0, task_ids |-> <<>>, created |-> <<>>,
     ended |-> <<>>]

\* The status endpoint behind one handle of the batch: the same status at
\* every poll, or a request that fails.
BatchPollers ==
    SteadyPollers
    \cup {[free |-> FALSE, n |-> 0, fin |-> TransportError(c)] : c \in Causes}

\* Mutant: the handle is appended whether or not create_video_task returned.
AppendHandleAlways(ids, o, id) == Append(ids, id)

\* try: task_ids.append({"id": task_id, ...})  except Exception: print(...)
AppendHandle(ids, o, id) ==
    IF o.kind = "return" THEN Append(ids, id) ELSE ids

\* The end of one turn of the creation loop: the handle is kept or the
\* exception printed, then the next task is created or the loop is left.
\* `created` remembers what each submission was answered (NoTask: no handle).
BatchAppend ==
    /\ entry = "batch" /\ batch.phase = "create" /\ pc = "done"
    /\ batch' = [batch EXCEPT
                   !.task_ids = AppendHandle(@, outcome, task_id),
                   !.created = Append(@, submitted),
                   !.i = IF batch.i < NumTasks THEN @ + 1 ELSE @,
                   !.phase = IF batch.i < NumTasks THEN "create" ELSE "wait",
                   !.k = IF batch.i < NumTasks THEN 0 ELSE 1]
    /\ pc' = IF batch.i < NumTasks THEN "submit" ELSE "next"
    /\ outcome' = NoOutcome
    /\ UNCHANGED <<family, entry, now, start_time, max_wait_time,
                   check_interval, task_id, prompt, poller, result, qret,
                   polls, sleeps, submits, netCalls, polledIds, submitted,
                   netFailure, request, sent, remote, given, clientVars, sideVars>>

\* for task_info in task_ids: client.wait_for_completion(task_info["id"]),
\* with the default max_wait_time and check_interval
BatchWait ==
    /\ entry = "batch" /\ batch.phase = "wait" /\ pc = "next"
    /\ IF batch.k <= Len(batch.task_ids)
       THEN /\ task_id' = batch.task_ids[batch.k]
            /\ max_wait_time' = DefaultMaxWait(family)
            /\ check_interval' = DefaultCheckInterval(family)
            /\ poller' \in BatchPollers
            /\ polls' = 0
            /\ sleeps' = 0
            /\ result' = NoResp
            /\ outcome' = NoOutcome
            /\ netFailure' = ""
            /\ remote' = "RUNNING"
            /\ pc' = "wait"
            /\ UNCHANGED batch
       ELSE /\ batch' = [batch EXCEPT !.phase = "finished"]
            /\ pc' = "done"
            /\ UNCHANGED <<task_id, max_wait_time, check_interval, poller,
                           polls, sleeps, result, outcome, netFailure, remote>>
    /\ UNCHANGED <<family, entry, now, start_time, prompt, qret, submits,
                   netCalls, polledIds, submitted, request, sent, given,
                   clientVars, sideVars>>

\* try: result = client.wait_for_completion(...) ... except Exception: the
\* result or the exception is printed and the loop goes on
BatchCollect ==
    /\ entry = "batch" /\ batch.phase = "wait" /\ pc = "done"
    /\ batch' = [batch EXCEPT !.ended = Append(@, outcome), !.k = @ + 1]
    /\ pc' = "next"
    /\ UNCHANGED <<family, entry, now, start_time, max_wait_time,
                   check_interval, task_id, prompt, poller, result, outcome,
                   qret, polls, sleeps, submits, netCalls, polledIds,
                   submitted, netFailure, request, sent, remote, given,
                   clientVars, sideVars>>

-----------------------------------------------------------------------------
(* create_video_task(model, function, prompt, **kwargs): the request data *)

Functions ==
    {"image_reference", "video_repainting", "video_edit", "video_extension",
     "video_expansion"}
\* The discriminators a caller may pass: the five known ones and another
FunctionInputs == Functions \cup {"video_style"}

\* The keyword arguments a caller may pass: the fields of the five
\* functions and one that belongs to none
KwargNames ==
    {"ref_images_url", "obj_or_bg", "size", "video_url", "control_condition",
     "mask_url", "first_frame_image", "duration", "expansion_ratio", "seed"}

\* kwargs[k]: every keyword carries a value of its own
Val(k) == <<"value of", k>>

\* if k in kwargs: data[...][k] = kwargs[k], for the keys ks in turn
Copy(ks, kw) == {<<k, Val(k)>> : k \in ks \cap kw}

\* Mutant: control_condition is read by every function that takes a video.
VideoParametersShared(f, kw) ==
    CASE f = "image_reference" -> Copy({"obj_or_bg", "size"}, kw)
      [] f = "video_repainting" -> Copy({"control_condition"}, kw)
      [] f = "video_edit" -> Copy({"control_condition"}, kw)
      [] f = "video_extension" -> Copy({"duration"}, kw)
      [] f = "video_expansion" ->
            Copy({"control_condition", "expansion_ratio"}, kw)
      [] OTHER -> {}

\* data["input"] besides function and prompt
VideoInput(f, kw) ==
    CASE f = "image_reference" -> Copy({"ref_images_url"}, kw)
      [] f = "video_repainting" -> Copy({"video_url"}, kw)
      [] f = "video_edit" -> Copy({"video_url", "mask_url"}, kw)
      [] f = "video_extension" -> Copy({"first_frame_image"}, kw)
      [] f = "video_expansion" -> Copy({"video_url"}, kw)
      [] OTHER -> {}

\* data["parameters"]
VideoParameters(f, kw) ==
    CASE f = "image_reference" -> Copy({"obj_or_bg", "size"}, kw)
      [] f = "video_repainting" -> Copy({"control_condition"}, kw)
      [] f = "video_edit" -> {}
      [] f = "video_extension" -> Copy({"duration"}, kw)
      [] f = "video_expansion" -> Copy({"expansion_ratio"}, kw)
      [] OTHER -> {}

NoData ==
    [model |-> "", function |-> "", prompt |-> 0, input |-> {},
     parameters |-> {}]

\* data = {"model": ..., "input": {"function", "prompt", ...}, "parameters"}
VideoData(model, f, promptLen, kw) ==
    [model |-> model, function |-> f, prompt |-> promptLen,
     input |-> VideoInput(f, kw), parameters |-> VideoParameters(f, kw)]

NoVideo ==
    [phase |-> "none", function |-> "", kwargs |-> {}, data |-> NoData,
     posted |-> FALSE]

\* create_video_task up to requests.post(self.base_url, ..., json=data)
PostVideoTask ==
    /\ video.phase = "called"
    /\ video' = [video EXCEPT
                   !.phase = "posted",
                   !.data = VideoData("wanx2.1-vace-plus", video.function,
                                      BATCH_PROMPT, video.kwargs),
                   !.posted = TRUE]
    /\ UNCHANGED <<callVars, clientVars, batch, tts, upload, checker>>

-----------------------------------------------------------------------------
(* BailianTTSGeneration.synthesize_speech *)

TTS_MAX_TEXT == 500
DEFAULT_SAMPLE_RATE == 22050
\* volume, speech_rate and pitch_rate are floats with one decimal in the
\* calls followed here; they are counted in tenths, 10 standing for 1.0
VOLUME_MIN == 1
RATE_MIN == 5
LEVEL_MAX == 20
DEFAULT_LEVEL == 10

\* self.available_voices.keys()
AvailableVoices ==
    {"Cherry", "Chelsie", "zhichu", "zhixiaobai", "zhixiaoxia", "zhimiao",
     "zhiyan", "zhiyuan", "zhiyun", "zhishuo", "zhiwei", "zhihao"}

\* self.available_formats.keys()
AvailableFormats == {"wav", "mp3", "pcm"}

\* The defaults of the optional arguments
TTSDefaults ==
    [format |-> "wav", sample_rate |-> DEFAULT_SAMPLE_RATE,
     volume |-> DEFAULT_LEVEL, speech_rate |-> DEFAULT_LEVEL,
     pitch_rate |-> DEFAULT_LEVEL]

\* The argument tuples a caller passes: each argument at, beside and beyond
\* the ends of its range
TTSLevels == {VOLUME_MIN - 1, VOLUME_MIN, RATE_MIN - 1, RATE_MIN,
              DEFAULT_LEVEL, LEVEL_MAX, LEVEL_MAX + 1}
TTSArguments ==
    [text : {TTS_MAX_TEXT, TTS_MAX_TEXT + 1},
     voice : {"Cherry", "zhihao", "Daisy"},
     format : AvailableFormats \cup {"ogg"},
     sample_rate : {DEFAULT_SAMPLE_RATE, 16000},
     volume : TTSLevels \ {RATE_MIN - 1},
     speech_rate : TTSLevels \ {VOLUME_MIN - 1, VOLUME_MIN},
     pitch_rate : TTSLevels \ {VOLUME_MIN - 1, VOLUME_MIN}]

\* Mutant: the pitch is not validated.
TTSValidationNoPitch(a) ==
    IF a.text > TTS_MAX_TEXT THEN "text longer than 500 characters"
    ELSE IF a.voice \notin AvailableVoices THEN "unsupported voice"
    ELSE IF a.format \notin AvailableFormats THEN "unsupported format"
    ELSE IF ~(VOLUME_MIN <= a.volume /\ a.volume <= LEVEL_MAX)
    THEN "volume must be within 0.1-2.0"
    ELSE IF ~(RATE_MIN <= a.speech_rate /\ a.speech_rate <= LEVEL_MAX)
    THEN "speech rate must be within 0.5-2.0"
    ELSE ""

\* The message of the ValueError the argument checks raise, "" when they
\* all pass
TTSValidation(a) ==
    IF a.text > TTS_MAX_TEXT THEN "text longer than 500 characters"
    ELSE IF a.voice \notin AvailableVoices THEN "unsupported voice"
    ELSE IF a.format \notin AvailableFormats THEN "unsupported format"
    ELSE IF ~(VOLUME_MIN <= a.volume /\ a.volume <= LEVEL_MAX)
    THEN "volume must be within 0.1-2.0"
    ELSE IF ~(RATE_MIN <= a.speech_rate /\ a.speech_rate <= LEVEL_MAX)
    THEN "speech rate must be within 0.5-2.0"
    ELSE IF ~(RATE_MIN <= a.pitch_rate /\ a.pitch_rate <= LEVEL_MAX)
    THEN "pitch must be within 0.5-2.0"
    ELSE ""

\* Mutant: the format is always sent.
NonDefaultWithFormat(a) ==
    {"format"} \cup {k \in DOMAIN TTSDefaults : a[k] # TTSDefaults[k]}

\* The optional arguments that differ from their defaults
NonDefault(a) == {k \in DOMAIN TTSDefaults : a[k] # TTSDefaults[k]}

\* data = {"model", "input": {"text", "voice"}} and, if any option differs
\* from its default, data["parameters"] with the options that differ
TTSData(a) ==
    [model |-> "qwen-tts",
     input |-> [text |-> a.text, voice |-> a.voice],
     hasParameters |-> NonDefault(a) # {},
     parameters |-> [k \in NonDefault(a) |-> a[k]]]

NoTTSData ==
    [model |-> "", input |-> [text |-> 0, voice |-> ""],
     hasParameters |-> FALSE, parameters |-> [k \in {} |-> 0]]

\* What the POST can be answered with: an exception of requests, an HTTP
\* error status, a body that is not JSON, a JSON body without 'output',
\* an output without 'audio', or an audio entry with or without 'url' and
\* with 'data' absent, empty, well-formed base64 or base64 cut short
TTSResponses ==
    {[stage |-> st, hasUrl |-> FALSE, data |-> "absent"] :
        st \in {"exception", "http_error", "not_json", "no_output",
                "no_audio"}}
    \cup {[stage |-> "audio", hasUrl |-> u, data |-> d] :
            u \in BOOLEAN, d \in {"absent", "", "QUJD", "QUJ"}}
NoTTSResponse == [stage |-> "none", hasUrl |-> FALSE, data |-> "absent"]

\* What the GET of the audio url can be answered with
TTSDownloads ==
    {[stage |-> st, content |-> ""] : st \in {"exception", "http_error"}}
    \cup {[stage |-> "ok", content |-> c] : c \in {"", "RIFF"}}
NoDownload == [stage |-> "none", content |-> ""]

\* base64.b64decode: the bytes, or binascii.Error for a cut-short string
B64Valid(d) == d \in {"QUJD", ""}
B64Decode(d) == IF d = "QUJD" THEN "ABC" ELSE ""

\* Python's None and a bytes value
None == [isNone |-> TRUE, bytes |-> ""]
Bytes(b) == [isNone |-> FALSE, bytes |-> b]

\* Mutant: inline data is preferred to the url.
AudioSourcePrefersData(r) ==
    IF r.data \notin {"absent", ""} THEN "data"
    ELSE IF r.hasUrl THEN "url"
    ELSE "none"

\* if 'url' in audio_info / elif 'data' in audio_info and audio_info['data']
AudioSource(r) ==
    IF r.hasUrl THEN "url"
    ELSE IF r.data \notin {"absent", ""} THEN "data"
    ELSE "none"

NoTTSRet ==
    [returned |-> FALSE, success |-> FALSE, error |-> <<>>,
     audio_data |-> None, audio_url |-> ""]
\* {'success': False, 'error': f"...: {e}", 'audio_data': None}
TTSFailure(prefix, e) ==
    [returned |-> TRUE, success |-> FALSE, error |-> <<prefix, e>>,
     audio_data |-> None, audio_url |-> ""]
\* {'success': True, 'audio_data': audio_data, 'audio_url': ..., ...}
TTSSuccess(bytes, url) ==
    [returned |-> TRUE, success |-> TRUE, error |-> <<>>,
     audio_data |-> Bytes(bytes), audio_url |-> url]

RequestFailed == "request failed: "
ProcessingFailed == "processing failed: "

\* What the function returns once the POST is answered with r, as far as
\* that is decided without a download.  A body that is not JSON raises
\* an exception that is a RequestException in some versions of requests
\* and a plain ValueError in others: prefix is the one the build gives.
TTSAnswer(r, prefix) ==
    CASE r.stage \in {"exception", "http_error"} ->
            TTSFailure(RequestFailed, r.stage)
      [] r.stage = "not_json" -> TTSFailure(prefix, r.stage)
      [] r.stage = "no_output" ->
            TTSFailure(ProcessingFailed, "response format: no output field")
      [] r.stage = "no_audio" ->
            TTSFailure(ProcessingFailed, "response format: no audio field")
      [] r.stage = "audio" /\ AudioSource(r) = "data" ->
            IF B64Valid(r.data)
            THEN TTSSuccess(B64Decode(r.data), "")
            ELSE TTSFailure(ProcessingFailed, "Incorrect padding")
      [] OTHER ->
            TTSFailure(ProcessingFailed, "no audio data in the response")

NoTTS ==
    [phase |-> "none",
     args |-> [text |-> 0, voice |-> "Cherry", format |-> "wav",
               sample_rate |-> DEFAULT_SAMPLE_RATE, volume |-> DEFAULT_LEVEL,
               speech_rate |-> DEFAULT_LEVEL, pitch_rate |-> DEFAULT_LEVEL],
     data |-> NoTTSData, posts |-> 0, gets |-> 0,
     response |-> NoTTSResponse, download |-> NoDownload,
     outcome |-> NoOutcome, ret |-> NoTTSRet]

\* synthesize_speech up to its return, or up to the download of the audio
SynthesizeSpeech ==
    /\ tts.phase = "called"
    /\ LET a == tts.args
           err == TTSValidation(a)
       IN
       IF err # ""
       THEN tts' = [tts EXCEPT
                      !.phase = "raised",
                      !.outcome = [NoOutcome EXCEPT !.kind = "raise",
                                                    !.exc = "ValueError",
                                                    !.text = <<err>>]]
       ELSE \E r \in TTSResponses,
               prefix \in {RequestFailed, ProcessingFailed} :
               /\ r.stage # "not_json" => prefix = ProcessingFailed
               /\ tts' = [tts EXCEPT
                            !.data = TTSData(a),
                            !.posts = @ + 1,
                            !.response = r,
                            !.phase = IF r.stage = "audio"
                                         /\ AudioSource(r) = "url"
                                      THEN "get" ELSE "returned",
                            !.ret = IF r.stage = "audio"
                                       /\ AudioSource(r) = "url"
                                    THEN NoTTSRet ELSE TTSAnswer(r, prefix)]
    /\ UNCHANGED <<callVars, clientVars, batch, video, upload, checker>>

\* requests.get(audio_url), raise_for_status, audio_response.content
DownloadAudio ==
    /\ tts.phase = "get"
    /\ \E g \in TTSDownloads :
         tts' = [tts EXCEPT
                   !.phase = "returned",
                   !.gets = @ + 1,
                   !.download = g,
                   !.ret = IF g.stage = "ok"
                           THEN TTSSuccess(g.content, "https://audio")
                           ELSE TTSFailure(RequestFailed, g.stage)]
    /\ UNCHANGED <<callVars, clientVars, batch, video, upload, checker>>

-----------------------------------------------------------------------------
(* BailianFileUpload: validate_file, get_upload_policy, upload_file_to_oss,
   upload_file, upload_multiple_files *)

MaxFiles == 2

\* self.max_file_size, in bytes
MAX_FILE_SIZE == 100 * 1024 * 1024

\* self.supported_types.keys()
SupportedTypes ==
    {".jpg", ".jpeg", ".png", ".gif", ".bmp", ".webp",
     ".mp4", ".avi", ".mov", ".wmv", ".flv", ".mkv",
     ".mp3", ".wav", ".aac", ".flac", ".ogg",
     ".pdf", ".txt", ".doc", ".docx"}

\* The paths a caller passes and what the file system holds at each: a
\* file that can be uploaded, one whose suffix is in capitals, one of
\* exactly the largest size, one a byte larger, one of another type, a
\* directory, and a path where nothing is
Files ==
    {[name |-> "a.png", exists |-> TRUE, is_file |-> TRUE, size |-> 1024,
      suffix |-> ".png"],
     [name |-> "B.PNG", exists |-> TRUE, is_file |-> TRUE, size |-> 0,
      suffix |-> ".PNG"],
     [name |-> "edge.mp4", exists |-> TRUE, is_file |-> TRUE,
      size |-> MAX_FILE_SIZE, suffix |-> ".mp4"],
     [name |-> "big.mp4", exists |-> TRUE, is_file |-> TRUE,
      size |-> MAX_FILE_SIZE + 1, suffix |-> ".mp4"],
     [name |-> "tool.exe", exists |-> TRUE, is_file |-> TRUE, size |-> 1024,
      suffix |-> ".exe"],
     [name |-> "frames.png", exists |-> TRUE, is_file |-> FALSE, size |-> 0,
      suffix |-> ".png"],
     [name |-> "gone.wav", exists |-> FALSE, is_file |-> FALSE, size |-> 0,
      suffix |-> ".wav"]}

\* str.lower() on the suffixes above
Lower(x) == IF x = ".PNG" THEN ".png" ELSE x

\* An exception, or none
NoException == [raised |-> FALSE, exc |-> "", text |-> ""]
Raised(exc, text) == [raised |-> TRUE, exc |-> exc, text |-> text]

\* Mutant: the file type is not checked.
ValidateFileAnyType(f) ==
    IF ~f.exists THEN Raised("FileNotFoundError", "file does not exist")
    ELSE IF ~f.is_file THEN Raised("ValueError", "path is not a file")
    ELSE IF f.size > MAX_FILE_SIZE THEN Raised("ValueError", "file too large")
    ELSE NoException

\* validate_file: the exception it raises, if any
ValidateFile(f) ==
    IF ~f.exists THEN Raised("FileNotFoundError", "file does not exist")
    ELSE IF ~f.is_file THEN Raised("ValueError", "path is not a file")
    ELSE IF f.size > MAX_FILE_SIZE THEN Raised("ValueError", "file too large")
    ELSE IF Lower(f.suffix) \notin SupportedTypes
    THEN Raised("ValueError", "unsupported file type")
    ELSE NoException

\* What the policy request can be answered with: an exception of requests,
\* a status other than 200, a body that is not JSON, a JSON body without
\* 'data', a 'data' without 'upload_dir', or a full policy
PolicyResponses ==
    {"exception", "status 403", "not json", "no data", "no upload_dir",
     "policy"}

\* get_upload_policy: the exception it raises, if any
GetUploadPolicy(p) ==
    CASE p = "exception" -> Raised("ConnectionError", "connection refused")
      [] p = "status 403" ->
            Raised("Exception", "getting the upload policy failed: 403")
      [] p = "not json" -> Raised("JSONDecodeError", "expecting value")
      [] p = "no data" ->
            Raised("Exception", "unexpected upload policy response")
      [] OTHER -> NoException

\* What becomes of the multipart POST: the file cannot be opened, requests
\* raises, or object storage answers with a status
PostResponses == {"open failed", "exception", "status 403", "status 200"}

\* upload_file_to_oss: the exception it raises, if any
UploadFileToOss(p, o) ==
    CASE p = "no upload_dir" -> Raised("KeyError", "'upload_dir'")
      [] o = "open failed" -> Raised("PermissionError", "permission denied")
      [] o = "exception" -> Raised("ConnectionError", "connection refused")
      [] o # "status 200" ->
            Raised("Exception", "uploading the file to OSS failed: 403")
      [] OTHER -> NoException

\* Whether upload_file_to_oss gets as far as requests.post
PostIsSent(p, o) == p = "policy" /\ o # "open failed"

NoUploadResult ==
    [returned |-> FALSE, success |-> FALSE, url |-> <<>>, error |-> <<>>,
     has_file_info |-> FALSE]
\* except Exception as e: {"success": False, "error": ..., "file_info": ...}
UploadFailure(e, validated) ==
    [returned |-> TRUE, success |-> FALSE, url |-> <<>>,
     error |-> <<"exception during upload: ", e.text>>,
     has_file_info |-> validated]
\* {"success": True, "url": f"oss://{upload_dir}/{file_name}", ...}
UploadSuccess(f) ==
    [returned |-> TRUE, success |-> TRUE,
     url |-> <<"oss://", "dashscope-instant/dir", "/", f.name>>,
     error |-> <<>>, has_file_info |-> TRUE]

\* Mutant: every file is counted.
CountSuccessAll(count, res) == count + 1

\* if result["success"]: success_count += 1
CountSuccess(count, res) ==
    IF res.success THEN count + 1 ELSE count

NoUpload ==
    [phase |-> "none", entry |-> "", file_paths |-> <<>>, i |-> 0,
     trace |-> <<>>, attempts |-> <<>>, gets |-> 0, posts |-> 0,
     policy |-> "", post |-> "", result |-> NoUploadResult,
     results |-> <<>>, success_count |-> 0, reported |-> 0]

\* The file upload_file is working on
CurrentFile == upload.file_paths[upload.i]

\* Where upload_file returns to: its caller, or the loop of
\* upload_multiple_files
AfterUpload == IF upload.entry = "upload_file" THEN "returned" ELSE "loop"

\* upload_multiple_files up to its first upload_file, or to its return for
\* an empty list
StartUploads ==
    /\ upload.phase = "start"
    /\ upload' = [upload EXCEPT
                    !.results = <<>>,
                    !.success_count = 0,
                    !.i = 1,
                    !.phase = IF upload.file_paths = <<>>
                              THEN "returned" ELSE "validate",
                    !.reported = 0]
    /\ UNCHANGED <<callVars, clientVars, batch, video, tts, checker>>

\* upload_file up to the policy request
UploadValidate ==
    /\ upload.phase = "validate"
    /\ LET e == ValidateFile(CurrentFile) IN
       upload' = [upload EXCEPT
                    !.trace = <<"validate">>,
                    !.attempts = Append(@, upload.i),
                    !.policy = "",
                    !.post = "",
                    !.result = IF e.raised THEN UploadFailure(e, FALSE)
                               ELSE NoUploadResult,
                    !.phase = IF e.raised THEN AfterUpload ELSE "policy"]
    /\ UNCHANGED <<callVars, clientVars, batch, video, tts, checker>>

\* upload_file from the policy request to the POST
UploadPolicy ==
    /\ upload.phase = "policy"
    /\ \E p \in PolicyResponses :
         LET e == GetUploadPolicy(p)
             k == UploadFileToOss(p, "status 200")
         IN
         upload' = [upload EXCEPT
                      !.trace = Append(@, "policy"),
                      !.gets = @ + 1,
                      !.policy = p,
                      !.result = IF e.raised THEN UploadFailure(e, TRUE)
                                 ELSE IF k.raised THEN UploadFailure(k, TRUE)
                                 ELSE NoUploadResult,
                      !.phase = IF e.raised \/ k.raised THEN AfterUpload
                                ELSE "oss"]
    /\ UNCHANGED <<callVars, clientVars, batch, video, tts, checker>>

\* upload_file from the POST to its return
UploadPost ==
    /\ upload.phase = "oss"
    /\ \E o \in PostResponses :
         LET e == UploadFileToOss(upload.policy, o) IN
         upload' = [upload EXCEPT
                      !.trace = IF PostIsSent(upload.policy, o)
                                THEN Append(@, "post") ELSE @,
                      !.posts = IF PostIsSent(upload.policy, o)
                                THEN @ + 1 ELSE @,
                      !.post = o,
                      !.result = IF e.raised THEN UploadFailure(e, TRUE)
                                 ELSE UploadSuccess(CurrentFile),
                      !.phase = AfterUpload]
    /\ UNCHANGED <<callVars, clientVars, batch, video, tts, checker>>

\* The rest of the loop body of upload_multiple_files, and its return
\* after the last file
UploadLoop ==
    /\ upload.phase = "loop"
    /\ LET count == CountSuccess(upload.success_count, upload.result)
           last == upload.i = Len(upload.file_paths)
       IN
       upload' = [upload EXCEPT
                    !.results = Append(@, [file_path |-> CurrentFile.name,
                                           result |-> upload.result]),
                    !.success_count = count,
                    !.i = IF last THEN @ ELSE @ + 1,
                    !.reported = IF last THEN count ELSE @,
                    !.phase = IF last THEN "returned" ELSE "validate"]
    /\ UNCHANGED <<callVars, clientVars, batch, video, tts, checker>>

-----------------------------------------------------------------------------
(* environment_check.py: EnvironmentChecker and main *)

MaxPackages == 2

\* The error messages, as the pieces they are put together from
FfmpegMissing == <<"x ", "ffmpeg", " is not installed">>
FfprobeMissing == <<"x ", "ffprobe", " is not installed">>
KeyMissing == <<"x ", "DASHSCOPE_API_KEY", " is not set">>
RequirementsMissing == <<"x ", "requirements.txt", " does not exist">>
RequirementsUnreadable == <<"x reading ", "requirements.txt", " failed">>
PackageMissing(name) == <<"x ", name, " is not installed">>
NoVenv == <<"no virtual environment detected">>

\* "ffmpeg" in e or "ffprobe" in e, for the messages above
MentionsFfmpeg(e) ==
    \E k \in DOMAIN e : e[k] \in {"ffmpeg", "ffprobe", "ffmpeg-python"}

\* The lines of requirements.txt and whether each imports
Packages ==
    {[name |-> "requests", installed |-> TRUE],
     [name |-> "dashscope", installed |-> FALSE],
     [name |-> "ffmpeg-python", installed |-> FALSE]}

\* What requirements.txt can be: absent, unreadable, or a list of packages
Requirements ==
    {[state |-> st, packages |-> <<>>] : st \in {"missing", "unreadable"}}
    \cup {[state |-> "read", packages |-> ps] :
            ps \in UNION {[1..n -> Packages] : n \in 0..MaxPackages}}

\* The machine the check runs on
Worlds ==
    [ffmpeg : BOOLEAN, ffprobe : BOOLEAN,
     api_key : {"unset", "", "sk-key"},
     in_venv : BOOLEAN,
     requirements : Requirements]

\* The errors a checker holds before run_all_checks: none when it was just
\* constructed, those of an earlier run otherwise
EarlierErrors == {<<>>, <<FfprobeMissing>>, <<KeyMissing>>}

\* if api_key: for os.getenv's None, '' and a key
KeySet(k) == k \notin {"unset", ""}

\* The messages a sequence of packages leaves in self.errors
RECURSIVE ImportErrors(_)
ImportErrors(ps) ==
    IF ps = <<>> THEN <<>>
    ELSE (IF Head(ps).installed THEN <<>>
          ELSE <<PackageMissing(Head(ps).name)>>) \o ImportErrors(Tail(ps))

\* Mutant: the packages do not count.
AllOkWithoutPackages(ffmpeg_ok, env_ok, python_ok, packages_ok) ==
    ffmpeg_ok /\ env_ok

\* all_ok = ffmpeg_ok and env_ok and packages_ok
AllOk(ffmpeg_ok, env_ok, python_ok, packages_ok) ==
    ffmpeg_ok /\ env_ok /\ packages_ok

\* sys.exit(0 if success else 1)
ExitCode(success) == IF success THEN 0 ELSE 1

NoChecker ==
    [phase |-> "none", entry |-> "", fresh |-> TRUE,
     world |-> [ffmpeg |-> TRUE, ffprobe |-> TRUE, api_key |-> "unset",
                in_venv |-> TRUE,
                requirements |-> [state |-> "missing", packages |-> <<>>]],
     errors |-> <<>>, warnings |-> <<>>, ran |-> <<>>,
     ffmpeg_ok |-> FALSE, env_ok |-> FALSE, python_ok |-> FALSE,
     packages_ok |-> FALSE, returned |-> FALSE, all_ok |-> FALSE,
     exited |-> FALSE, exit_code |-> 0]

\* check_ffmpeg_tools
CheckFfmpegTools ==
    /\ checker.phase = "ffmpeg"
    /\ LET w == checker.world
           errs == checker.errors
                   \o (IF w.ffmpeg THEN <<>> ELSE <<FfmpegMissing>>)
                   \o (IF w.ffprobe THEN <<>> ELSE <<FfprobeMissing>>)
       IN
       checker' = [checker EXCEPT
                     !.errors = errs,
                     !.ffmpeg_ok = ~\E k \in DOMAIN errs :
                                        MentionsFfmpeg(errs[k]),
                     !.ran = Append(@, "ffmpeg"),
                     !.phase = "env"]
    /\ UNCHANGED <<callVars, clientVars, batch, video, tts, upload>>

\* check_environment_variables
CheckEnvironmentVariables ==
    /\ checker.phase = "env"
    /\ LET ok == KeySet(checker.world.api_key) IN
       checker' = [checker EXCEPT
                     !.errors = IF ok THEN @ ELSE Append(@, KeyMissing),
                     !.env_ok = ok,
                     !.ran = Append(@, "env"),
                     !.phase = "python"]
    /\ UNCHANGED <<callVars, clientVars, batch, video, tts, upload>>

\* check_python_environment
CheckPythonEnvironment ==
    /\ checker.phase = "python"
    /\ checker' = [checker EXCEPT
                     !.warnings = IF checker.world.in_venv THEN @
                                  ELSE Append(@, NoVenv),
                     !.python_ok = TRUE,
                     !.ran = Append(@, "python"),
                     !.phase = "packages"]
    /\ UNCHANGED <<callVars, clientVars, batch, video, tts, upload>>

\* check_required_packages
CheckRequiredPackages ==
    /\ checker.phase = "packages"
    /\ LET r == checker.world.requirements
           errs == CASE r.state = "missing" -> <<RequirementsMissing>>
                     [] r.state = "unreadable" -> <<RequirementsUnreadable>>
                     [] OTHER -> ImportErrors(r.packages)
           ok == r.state = "read"
                 /\ \A k \in DOMAIN r.packages : r.packages[k].installed
       IN
       checker' = [checker EXCEPT
                     !.errors = @ \o errs,
                     !.packages_ok = ok,
                     !.ran = Append(@, "packages"),
                     !.phase = "summary"]
    /\ UNCHANGED <<callVars, clientVars, batch, video, tts, upload>>

\* run_all_checks from its summary to its return
Summarize ==
    /\ checker.phase = "summary"
    /\ checker' = [checker EXCEPT
                     !.all_ok = AllOk(checker.ffmpeg_ok, checker.env_ok,
                                      checker.python_ok,
                                      checker.packages_ok),
                     !.returned = TRUE,
                     !.phase = IF checker.entry = "main" THEN "exit"
                               ELSE "returned"]
    /\ UNCHANGED <<callVars, clientVars, batch, video, tts, upload>>

\* main: sys.exit(0 if success else 1)
MainExit ==
    /\ checker.phase = "exit"
    /\ checker' = [checker EXCEPT
                     !.exited = TRUE,
                     !.exit_code = ExitCode(checker.all_ok),
                     !.phase = "exited"]
    /\ UNCHANGED <<callVars, clientVars, batch, video, tts, upload>>


\* No call of the kinds above is under way
SideIdle ==
    /\ video = NoVideo
    /\ tts = NoTTS
    /\ upload = NoUpload
    /\ checker = NoChecker

-----------------------------------------------------------------------------
(* The calls a caller can make *)

\* create_image_task's defaults: negative_prompt=None, size="1024*1024", n=1
DefaultRequest == [negative_prompt |-> NoneValue, size |-> "1024*1024", n |-> 1]

\* The arguments a caller of create_image_task may pass
T2IRequests ==
    [negative_prompt : {NoneValue, Text(0), Text(3)},
     size : {"1024*1024", "1328*1328"},
     n : {0, 1, 4, 5}]

\* The arguments a caller of qwen-image generate_image may pass
QwenRequests ==
    [negative_prompt : {Text(l) : l \in NegativeLens},
     size : SizeInputs,
     n : CountInputs]

\* The ways wait_for_completion is called: wait_for_completion(task_id),
\* wait_for_completion(task_id, max_wait_time) as generate_* does, and
\* wait_for_completion(task_id, max_wait_time, check_interval).
TimingArguments ==
    {{}, {"max_wait_time"}, {"max_wait_time", "check_interval"}}

\* wait_for_completion(task_id, max_wait_time, check_interval) on either client
InitWait ==
    /\ entry = "wait"
    /\ family \in {"t2i", "video"}
    /\ pc = "wait"
    /\ task_id \in TaskIds
    /\ given \in TimingArguments
    /\ max_wait_time \in IF "max_wait_time" \in given
                          THEN 0..MaxWait ELSE {DefaultMaxWait(family)}
    /\ check_interval \in IF "check_interval" \in given
                           THEN 1..MaxInterval
                           ELSE {DefaultCheckInterval(family)}
    /\ poller \in IF "max_wait_time" \in given THEN Pollers ELSE SteadyPollers
    /\ prompt = 0
    /\ request = DefaultRequest
    /\ remote \in {s \in RemoteStates : CanAnswer(poller, 1, s)}

\* generate_image(model, prompt, ..., max_wait_time) / generate_video(...)
InitGenerate ==
    /\ entry = "generate"
    /\ family \in {"t2i", "video"}
    /\ pc = "submit"
    /\ task_id = NoTask
    /\ max_wait_time \in {k * DefaultCheckInterval(family) : k \in 0..MaxPolls}
    /\ check_interval = 0
    /\ poller = FreePoller
    /\ prompt \in PromptLens
    /\ request = DefaultRequest
    /\ remote = NoTask
    /\ given = {"max_wait_time"}

\* create_image_task(model, prompt, negative_prompt, size, n) /
\* create_video_task(model, function, prompt) called on its own
InitSubmit ==
    /\ entry = "submit"
    /\ family \in {"t2i", "video"}
    /\ pc = "submit"
    /\ task_id = NoTask
    /\ max_wait_time = 0
    /\ check_interval = 0
    /\ poller = FreePoller
    /\ prompt \in PromptLens
    /\ request \in IF family = "t2i" THEN T2IRequests ELSE {DefaultRequest}
    /\ remote = NoTask
    /\ given = {}

\* qwen-image generate_image(prompt, negative_prompt, size, ..., n)
InitQwen ==
    /\ entry = "generate"
    /\ family = "qwen"
    /\ pc = "qwen"
    /\ task_id = NoTask
    /\ max_wait_time = 0
    /\ check_interval = 0
    /\ poller = FreePoller
    /\ prompt \in PromptLens
    /\ request \in QwenRequests
    /\ remote = NoTask
    /\ given = {}

\* The caller holds one client, constructed from the environment's key
ClientReady ==
    /\ environ = "kE"
    /\ clients = [v \in Instances |->
                    IF v = "a" THEN NewClient(family, "kE") ELSE NoClient]
    /\ dashscope_api_key = IF family = "qwen" THEN "kE" ELSE NoKey
    /\ lastReq = NoReq
    /\ lastCtor = [var |-> "a", arg |-> NoKey, env |-> "kE", raised |-> FALSE]

Init ==
    /\ InitWait \/ InitGenerate \/ InitSubmit \/ InitQwen
    /\ now = 0
    /\ start_time = 0
    /\ result = NoResp
    /\ outcome = NoOutcome
    /\ qret = NoQret
    /\ polls = 0
    /\ sleeps = 0
    /\ submits = 0
    /\ netCalls = 0
    /\ polledIds = {}
    /\ submitted = NoTask
    /\ netFailure = ""
    /\ sent = NoPayload
    /\ ClientReady
    /\ batch = NoBatch
    /\ SideIdle

Next ==
    \/ CreateTask
    \/ WaitStart
    \/ LoopCheck
    \/ Poll
    \/ Sleep
    \/ QwenGenerateImage

Spec == Init /\ [][Next]_vars

\* The caller's thread keeps running: a call that can take a step takes it.
LiveSpec == Spec /\ WF_vars(Next)

\* A program that constructs clients and lets them issue requests, before
\* any call of the kind above is followed.
ClientInit ==
    /\ InitWait
    /\ family = "t2i" /\ task_id = "T1" /\ poller = FreePoller
    /\ given = {"max_wait_time", "check_interval"}
    /\ max_wait_time = MaxWait /\ check_interval = MaxInterval
    /\ now = 0
    /\ start_time = 0
    /\ result = NoResp
    /\ outcome = NoOutcome
    /\ qret = NoQret
    /\ polls = 0
    /\ sleeps = 0
    /\ submits = 0
    /\ netCalls = 0
    /\ polledIds = {}
    /\ submitted = NoTask
    /\ netFailure = ""
    /\ sent = NoPayload
    /\ environ \in EnvValues
    /\ clients = [v \in Instances |-> NoClient]
    /\ dashscope_api_key = NoKey
    /\ lastReq = NoReq
    /\ lastCtor = NoCtor
    /\ batch = NoBatch
    /\ SideIdle

ClientNext ==
    \/ Construct
    \/ SetEnviron
    \/ Request
    \/ QwenCall

ClientSpec == ClientInit /\ [][ClientNext]_vars

\* The call state of a program that follows none of the calls above
CallIdle ==
    /\ InitWait
    /\ family = "t2i" /\ task_id = "T1" /\ poller = FreePoller
    /\ given = {"max_wait_time", "check_interval"}
    /\ max_wait_time = MaxWait /\ check_interval = MaxInterval
    /\ now = 0
    /\ start_time = 0
    /\ result = NoResp
    /\ outcome = NoOutcome
    /\ qret = NoQret
    /\ polls = 0
    /\ sleeps = 0
    /\ submits = 0
    /\ netCalls = 0
    /\ polledIds = {}
    /\ submitted = NoTask
    /\ netFailure = ""
    /\ sent = NoPayload
    /\ ClientReady
    /\ batch = NoBatch
    /\ remote = "RUNNING"

\* create_video_task(model, function, prompt, **kwargs) for every function
\* and every set of keyword arguments
VideoInit ==
    /\ CallIdle
    /\ \E f \in FunctionInputs, kw \in SUBSET KwargNames :
         video = [NoVideo EXCEPT !.phase = "called", !.function = f,
                                 !.kwargs = kw]
    /\ tts = NoTTS
    /\ upload = NoUpload
    /\ checker = NoChecker

VideoNext == PostVideoTask

VideoSpec == VideoInit /\ [][VideoNext]_vars

\* synthesize_speech(text, voice, format, sample_rate, volume, speech_rate,
\* pitch_rate) for every argument tuple
TTSInit ==
    /\ CallIdle
    /\ video = NoVideo
    /\ \E a \in TTSArguments : tts = [NoTTS EXCEPT !.phase = "called",
                                                    !.args = a]
    /\ upload = NoUpload
    /\ checker = NoChecker

TTSNext == SynthesizeSpeech \/ DownloadAudio

TTSSpec == TTSInit /\ [][TTSNext]_vars

\* upload_file(file_path) for every path, and upload_multiple_files(
\* file_paths) for every list of at most MaxFiles paths
UploadInit ==
    /\ CallIdle
    /\ video = NoVideo
    /\ tts = NoTTS
    /\ \/ \E f \in Files :
            upload = [NoUpload EXCEPT !.phase = "validate",
                                      !.entry = "upload_file",
                                      !.file_paths = <<f>>, !.i = 1]
       \/ \E n \in 0..MaxFiles : \E fs \in [1..n -> Files] :
            upload = [NoUpload EXCEPT !.phase = "start",
                                      !.entry = "upload_multiple_files",
                                      !.file_paths = fs]
    /\ checker = NoChecker

UploadNext ==
    \/ StartUploads
    \/ UploadValidate
    \/ UploadPolicy
    \/ UploadPost
    \/ UploadLoop

UploadSpec == UploadInit /\ [][UploadNext]_vars

\* main() on every machine, and run_all_checks() on a checker that ran
\* before
CheckerInit ==
    /\ CallIdle
    /\ video = NoVideo
    /\ tts = NoTTS
    /\ upload = NoUpload
    /\ \E w \in Worlds, errs \in EarlierErrors,
          e \in {"main", "run_all_checks"} :
         /\ e = "main" => errs = <<>>
         /\ checker = [NoChecker EXCEPT !.phase = "ffmpeg", !.entry = e,
                                        !.world = w, !.errors = errs,
                                        !.fresh = (errs = <<>>)]

CheckerNext ==
    \/ CheckFfmpegTools
    \/ CheckEnvironmentVariables
    \/ CheckPythonEnvironment
    \/ CheckRequiredPackages
    \/ Summarize
    \/ MainExit

CheckerSpec == CheckerInit /\ [][CheckerNext]_vars

\* example_batch_processing(), from its first create_video_task
BatchInit ==
    /\ entry = "batch"
    /\ family = "video"
    /\ pc = "submit"
    /\ task_id = NoTask
    /\ given = {}
    /\ max_wait_time = DefaultMaxWait(family)
    /\ check_interval = DefaultCheckInterval(family)
    /\ poller = FreePoller
    /\ prompt = BATCH_PROMPT
    /\ request = DefaultRequest
    /\ remote = NoTask
    /\ now = 0
    /\ start_time = 0
    /\ result = NoResp
    /\ outcome = NoOutcome
    /\ qret = NoQret
    /\ polls = 0
    /\ sleeps = 0
    /\ submits = 0
    /\ netCalls = 0
    /\ polledIds = {}
    /\ submitted = NoTask
    /\ netFailure = ""
    /\ sent = NoPayload
    /\ ClientReady
    /\ batch = [NoBatch EXCEPT !.phase = "create", !.i = 1]
    /\ SideIdle

BatchNext ==
    \/ CreateTask
    \/ BatchAppend
    \/ BatchWait
    \/ WaitStart
    \/ LoopCheck
    \/ Poll
    \/ Sleep
    \/ BatchCollect

BatchSpec == BatchInit /\ [][BatchNext]_vars

TypeOK ==
    /\ family \in Families
    /\ entry \in {"wait", "generate", "submit", "batch"}
    /\ pc \in {"submit", "wait", "check", "poll", "sleep", "qwen", "done",
               "next"}
    /\ batch.phase \in {"none", "create", "wait", "finished"}
    /\ now \in Nat /\ start_time \in Nat
    /\ max_wait_time \in Nat /\ check_interval \in Nat
    /\ task_id \in TaskIds \cup {NoTask}
    /\ polls \in Nat /\ sleeps \in Nat /\ submits \in Nat /\ netCalls \in Nat
    /\ polledIds \subseteq TaskIds
    /\ outcome.kind \in {"none", "return", "raise"}
    /\ remote \in RemoteStates \cup {NoTask}
    /\ given \subseteq {"max_wait_time", "check_interval"}
    /\ environ \in EnvValues /\ dashscope_api_key \in ApiKeyArgs \cup EnvValues
    /\ \A v \in Instances : clients[v].cls \in Families \cup {"none"}
    /\ video.phase \in {"none", "called", "posted"}
    /\ video.function \in FunctionInputs \cup {""}
    /\ video.kwargs \subseteq KwargNames
    /\ tts.phase \in {"none", "called", "raised", "get", "returned"}
    /\ tts.posts \in 0..1 /\ tts.gets \in 0..1
    /\ upload.phase \in {"none", "start", "validate", "policy", "oss",
                         "loop", "returned"}
    /\ upload.i \in 0..MaxFiles /\ Len(upload.file_paths) <= MaxFiles
    /\ upload.gets \in 0..MaxFiles /\ upload.posts \in 0..MaxFiles
    /\ checker.phase \in {"none", "ffmpeg", "env", "python", "packages",
                          "summary", "returned", "exit", "exited"}
    /\ checker.exit_code \in {0, 1}

-----------------------------------------------------------------------------
(* Properties *)

Elapsed == now - start_time
InWait == pc \in {"check", "poll", "sleep"}
RunsThenSucceeds == ~poller.free /\ poller.fin \in {Succeeded(p) : p \in Payloads}
AlwaysRunning == ~poller.free /\ poller.fin = Running
IsTerminal(r) ==
    r.kind = "body" /\ r.hasOutput /\ TaskStatus(r) \in {"SUCCEEDED", "FAILED"}
IsUnrecognized(r) ==
    /\ r.kind = "body" /\ r.hasOutput
    /\ TaskStatus(r) \notin {"PENDING", "RUNNING", "SUCCEEDED", "FAILED"}
IsTimeout(o) == o.kind = "raise" /\ Head(o.text) = TASK_TIMEOUT
IsRemoteFailure(o) == o.kind = "raise" /\ Head(o.text) = TASK_FAILED
IsTransportError(o) ==
    o.kind = "raise" /\ Head(o.text) \in {QUERY_FAILED, REQUEST_FAILED}

\* C1: wait_for_completion driven by a poller that answers RUNNING N times
\* and then SUCCEEDED ends either by returning that SUCCEEDED response after
\* exactly N+1 polls, or by the timeout error, and the latter only when a
\* sleep among the first N ended at or after max_wait_time (so the N sleeps
\* did not end before max_wait_time); it never polls more than N+1 times.
C1_RunningThenSucceeded ==
    (entry = "wait" /\ RunsThenSucceeds) =>
        /\ polls <= poller.n + 1
        /\ pc = "done" =>
             \/ /\ outcome = Return(poller.fin)
                /\ polls = poller.n + 1
                /\ sleeps = poller.n
             \/ /\ outcome = TimeoutError(max_wait_time)
                /\ polls <= poller.n
                /\ sleeps = polls
                /\ Elapsed >= max_wait_time

C1_Witness ==
    /\ entry = "wait" /\ RunsThenSucceeds /\ poller.n = 2
    /\ pc = "done" /\ outcome = Return(poller.fin) /\ polls = 3

\* C2: with a poller that always answers RUNNING, wait_for_completion ends
\* only with the timeout error, raised only when elapsed >= max_wait_time; no
\* poll is started once elapsed >= max_wait_time, and the number of polls
\* never exceeds ceil(max_wait_time / check_interval).
C2_AlwaysRunningTimesOut ==
    (entry = "wait" /\ AlwaysRunning) =>
        /\ polls <= (max_wait_time + check_interval - 1) \div check_interval
        /\ pc = "poll" => Elapsed < max_wait_time
        /\ pc = "done" =>
             /\ outcome = TimeoutError(max_wait_time)
             /\ Elapsed >= max_wait_time
             /\ sleeps = polls

C2_Witness ==
    /\ entry = "wait" /\ AlwaysRunning
    /\ max_wait_time = 3 /\ check_interval = 2
    /\ pc = "done" /\ IsTimeout(outcome) /\ polls = 2

\* C3: when a poll observes FAILED accompanied by a message m, the call ends
\* at once with the task-failed exception whose text is the fixed prefix
\* followed by exactly m.
C3_FailedMessageVerbatim ==
    (result.kind = "body" /\ result.hasOutput /\ TaskStatus(result) = "FAILED"
     /\ result.hasMessage) =>
        /\ pc = "done"
        /\ outcome.kind = "raise"
        /\ Head(outcome.text) = TASK_FAILED
        /\ Tail(outcome.text) = result.message

C3_Witness ==
    /\ pc = "done" /\ IsRemoteFailure(outcome)
    /\ result.hasMessage /\ result.message = <<"a">>
    /\ polls >= 2

\* C4: for every request whose prompt is longer than 800 characters, the
\* submit operation of each generation client fails with an invalid-argument
\* error (ValueError) and no outbound network call is made.
C4_LongPromptRejected ==
    (entry = "generate" /\ prompt > MAX_PROMPT) =>
        /\ netCalls = 0
        /\ pc = "done" => (outcome.kind = "raise" /\ outcome.exc = "ValueError")

\* C5: once a poll has observed SUCCEEDED or FAILED the call has ended, and
\* no step after the observation sleeps, polls or lets time pass.
C5_TerminalEndsAtOnce ==
    /\ [](IsTerminal(result) => pc = "done")
    /\ [][IsTerminal(result) =>
            (polls' = polls /\ sleeps' = sleeps /\ netCalls' = netCalls
             /\ now' = now)]_vars

C5_Witness ==
    /\ IsTerminal(result) /\ TaskStatus(result) = "FAILED"
    /\ pc = "done" /\ polls = 3 /\ sleeps = 2

\* C6: a network failure during submit or a poll ends generate_* /
\* wait_for_completion with an exception wrapping the cause, no network call
\* follows it, and a further poll is only made after a body whose status is
\* not terminal.
C6_TransportNotRetried ==
    /\ []((family # "qwen" /\ netFailure # "") =>
            /\ pc = "done"
            /\ outcome.kind = "raise"
            /\ outcome.text \in {<<REQUEST_FAILED, netFailure>>,
                                 <<QUERY_FAILED, netFailure>>})
    /\ [][(family # "qwen" /\ netFailure # "") => netCalls' = netCalls]_vars
    /\ [][(polls' = polls + 1 /\ polls > 0) =>
            (netFailure = "" /\ result.kind = "body" /\ ~IsTerminal(result))]_vars

C6_Witness ==
    /\ family # "qwen" /\ netFailure = "HTTPError"
    /\ pc = "done" /\ polls = 2 /\ outcome.text = <<QUERY_FAILED, "HTTPError">>

\* C7: a poll that returns an unrecognized status (or none) is handled like
\* RUNNING: the call sleeps check_interval, re-checks the deadline and polls
\* again while the deadline has not passed; after such a status the call ends
\* only by the timeout (or by what a later poll returns), never with a result
\* or an error for the status itself.
C7_UnrecognizedIsTransient ==
    /\ []((IsUnrecognized(result) /\ netFailure = "") =>
            \/ pc \in {"sleep", "check", "poll"} /\ outcome = NoOutcome
            \/ pc = "done" /\ outcome = TimeoutError(max_wait_time))
    /\ [][(polls' = polls + 1 /\ netFailure' = "" /\ IsUnrecognized(result')) =>
            pc' = "sleep"]_vars
    /\ [][pc = "sleep" =>
            (now' = now + check_interval /\ sleeps' = sleeps + 1
             /\ pc' = "check")]_vars
    /\ [][(pc = "check" /\ Elapsed < max_wait_time) => pc' = "poll"]_vars

C7_Witness ==
    /\ IsUnrecognized(result) /\ TaskStatus(result) = "CANCELED"
    /\ pc = "poll" /\ polls = 1 /\ sleeps = 1

\* C8: every call terminates; a wait_for_completion that was entered ends
\* with the SUCCEEDED response, the task-failed error, a transport error or
\* the timeout error, and while it runs it has polled at most
\* ceil(max_wait_time / check_interval) times, whatever the poller answers.
C8_WaitTerminates ==
    /\ <>(pc = "done")
    /\ [](InWait =>
            polls <= (max_wait_time + check_interval - 1) \div check_interval)
    /\ []((pc = "done" /\ (entry = "wait" \/
                            (entry = "generate" /\ submitted # NoTask))) =>
            \/ outcome.kind = "return" /\ TaskStatus(outcome.value) = "SUCCEEDED"
            \/ IsRemoteFailure(outcome)
            \/ IsTransportError(outcome)
            \/ IsTimeout(outcome))

C8_Witness ==
    /\ entry = "wait" /\ poller.free
    /\ pc = "done" /\ IsTimeout(outcome)
    /\ result = NoOutput /\ polls = 4

\* C9: generate_image / generate_video returns exactly the body of the poll
\* that reported SUCCEEDED: same status, same results.
C9_GenerateReturnsPollBody ==
    (entry = "generate" /\ family # "qwen" /\ outcome.kind = "return") =>
        /\ pc = "done"
        /\ outcome.value = result
        /\ result.kind = "body" /\ result.hasOutput
        /\ TaskStatus(result) = "SUCCEEDED"
        /\ result.payload \in Payloads

C9_Witness ==
    /\ entry = "generate" /\ family = "t2i" /\ submitted = "T1"
    /\ pc = "done" /\ polls = 2 /\ sleeps = 1
    /\ outcome = Return(Succeeded("http://x/1.png"))

\* C10: in generate_image / generate_video at most one submit is made and it
\* is made before the call ends; polling happens only after a submit that
\* returned a task id, every poll uses that id, and a failed submit ends the
\* call without any poll.
C10_GenerateIsSubmitThenWait ==
    (entry = "generate" /\ family # "qwen") =>
        /\ submits <= 1
        /\ pc # "submit" => submits = 1
        /\ (pc \in {"wait", "check", "poll", "sleep"} \/ polls > 0) =>
             /\ submits = 1
             /\ submitted \in TaskIds
             /\ task_id = submitted
             /\ polledIds \subseteq {submitted}
        /\ (submits = 1 /\ submitted = NoTask) =>
             (pc = "done" /\ polls = 0 /\ outcome.kind = "raise")

C10_Witness ==
    /\ entry = "generate" /\ family = "video" /\ submits = 1
    /\ submitted = "T2" /\ polledIds = {"T2"} /\ polls = 3 /\ pc = "done"

\* C11: the payload posted by create_image_task, and the parameters the
\* qwen-image client passes, hold size and n exactly as given; they hold a
\* negative_prompt key iff a non-empty negative prompt was supplied, and then
\* with the supplied value.
C11_PayloadRoundTrip ==
    (sent.posted /\ family \in {"t2i", "qwen"}) =>
        /\ sent.has_size /\ sent.size = request.size
        /\ sent.has_n /\ sent.n = request.n
        /\ sent.has_negative_prompt <=> Truthy(request.negative_prompt)
        /\ sent.has_negative_prompt =>
             sent.negative_prompt = request.negative_prompt

C11_Witness ==
    /\ family = "t2i" /\ sent.posted
    /\ request.size = "1328*1328" /\ request.n = 1
    /\ request.negative_prompt = NoneValue
    /\ sent.size = "1328*1328" /\ sent.n = 1 /\ ~sent.has_negative_prompt

\* C12: a poll answered with a 200 body that lacks 'output' ends
\* wait_for_completion with a malformed-response error: the call does not
\* go on waiting, and the error raised is not the timeout.
C12_MissingOutputSurfaced ==
    (InWait \/ pc = "done") =>
        ((result.kind = "body" /\ ~result.hasOutput /\ netFailure = "") =>
            (pc = "done" /\ outcome.kind = "raise" /\ ~IsTimeout(outcome)))

\* C13: create_image_task / create_video_task hands back a task id only when
\* the 200 body holds output.task_id, and then exactly that value; otherwise
\* the call ends with an exception, no handle exists and nothing is polled.
C13_SubmitReturnsTaskId ==
    (entry \in {"submit", "generate"} /\ family # "qwen" /\ submits = 1) =>
        /\ task_id # NoTask => (submitted \in TaskIds /\ task_id = submitted)
        /\ submitted \in TaskIds =>
             /\ task_id = submitted
             /\ entry = "submit" => (pc = "done" /\ outcome = ReturnHandle)
        /\ submitted = NoTask =>
             /\ task_id = NoTask
             /\ pc = "done" /\ outcome.kind = "raise"
             /\ Head(outcome.text) \in {REQUEST_FAILED, CREATE_FAILED}
             /\ polls = 0 /\ polledIds = {}

C13_Witness ==
    /\ entry = "submit" /\ family = "video" /\ submits = 1
    /\ pc = "done" /\ outcome.kind = "return" /\ task_id = "T2"

\* C14: wait_for_completion never ends with the timeout error for a task
\* that is SUCCEEDED or FAILED at the moment the timeout is raised.
C14_TimeoutOnlyWhileRunning ==
    IsTimeout(outcome) => remote \notin {"SUCCEEDED", "FAILED"}

\* C14 amended: wait_for_completion ends with the timeout error only when
\* max_wait_time has passed since the wait started and no poll of the call
\* reported SUCCEEDED or FAILED: the last poll, if there was one, was
\* followed by a sleep, and if it carried a status the task was not in a
\* terminal state when it was answered.  (The task may have become terminal
\* since, during that last sleep: no poll follows it.)
C14_TimeoutOnlyUnobserved ==
    IsTimeout(outcome) =>
        /\ Elapsed >= max_wait_time
        /\ ~IsTerminal(result)
        /\ netFailure = ""
        /\ sleeps = polls
        /\ (result.kind = "body" /\ result.hasOutput /\ result.hasStatus) =>
               result.task_status \in {"PENDING", "RUNNING", "CANCELED"}

C14_Witness ==
    /\ entry = "wait" /\ pc = "done" /\ IsTimeout(outcome)
    /\ polls = 1 /\ result = Running
    /\ remote = "SUCCEEDED"

\* C18: create_image_task called with n outside 1..4 ends with a ValueError
\* before any request is posted.
C18_InvalidCountRejected ==
    (family = "t2i" /\ entry = "submit" /\ request.n \notin 1..4) =>
        /\ ~sent.posted /\ netCalls = 0
        /\ pc = "done" => (outcome.kind = "raise" /\ outcome.exc = "ValueError")

\* C19: the text of the timeout exception names the time that has passed
\* since the wait started.
C19_TimeoutNamesElapsed ==
    IsTimeout(outcome) =>
        outcome.text = <<TASK_TIMEOUT, ToString(Elapsed), SECONDS>>

\* C20: wait_for_completion called without timing arguments sleeps 5 s
\* between polls and gives up once 300 s have passed (image client), 30 s
\* and 900 s (video client); with max_wait_time and check_interval given it
\* sleeps check_interval and gives up once max_wait_time has passed; and
\* generate_image / generate_video, whatever max_wait_time they are given,
\* sleep the client's default 5 s / 30 s between polls.  In every case the
\* time spent in the wait is the sleeps at that interval plus the latency of
\* the polls, a poll is only started before the ceiling, and the timeout is
\* only raised at or after it.
C20_DefaultCadence ==
    LET interval == IF family = "video" THEN 30 ELSE 5
        ceiling == IF family = "video" THEN 900 ELSE 300
    IN
    (entry \in {"wait", "generate"} /\ task_id # NoTask
       /\ pc \in {"check", "poll", "sleep", "done"}) =>
        /\ "check_interval" \notin given => check_interval = interval
        /\ "max_wait_time" \notin given => max_wait_time = ceiling
        /\ entry = "generate" => check_interval = interval
        /\ Elapsed >= check_interval * sleeps
        /\ Elapsed <= check_interval * sleeps + polls * MaxLatency
        /\ pc = "poll" => Elapsed < max_wait_time
        /\ IsTimeout(outcome) => Elapsed >= max_wait_time

C20_Witness ==
    /\ entry = "wait" /\ family = "video" /\ given = {}
    /\ pc = "done" /\ IsTimeout(outcome)
    /\ polls = 30 /\ sleeps = 30 /\ Elapsed = 900

\* C15: a constructor call raises exactly when neither the api_key argument
\* nor DASHSCOPE_API_KEY holds a non-empty key, and then no instance comes
\* to exist; every instance holds a non-empty key, which is the argument
\* when a non-empty argument was passed and the environment's key at
\* construction otherwise; and every request an instance issues carries a
\* non-empty key, whatever the environment holds at the time of the request.
C15_CredentialAtConstruction ==
    /\ \A v \in Instances :
         clients[v] # NoClient =>
            /\ KeyTruthy(clients[v].api_key)
            /\ clients[v].authorization = clients[v].api_key
    /\ lastCtor # NoCtor =>
         /\ lastCtor.raised <=>
               (~KeyTruthy(lastCtor.arg) /\ ~KeyTruthy(lastCtor.env))
         /\ lastCtor.raised => clients[lastCtor.var] = NoClient
         /\ KeyTruthy(lastCtor.arg) =>
               clients[lastCtor.var].api_key = lastCtor.arg
         /\ (~KeyTruthy(lastCtor.arg) /\ KeyTruthy(lastCtor.env)) =>
               clients[lastCtor.var].api_key = lastCtor.env
    /\ lastReq # NoReq =>
         /\ clients[lastReq.by] # NoClient
         /\ KeyTruthy(lastReq.api_key)

C15_Witness ==
    /\ lastCtor = [var |-> "b", arg |-> "k1", env |-> "kE", raised |-> FALSE]
    /\ clients["b"].cls = "video" /\ clients["b"].api_key = "k1"
    /\ clients["a"] = NoClient
    /\ environ = NoKey
    /\ lastReq.by = "b" /\ lastReq.kind = "poll" /\ lastReq.api_key = "k1"

\* C16: the key and the endpoint of every request an instance issues are the
\* ones that instance was constructed with.
C16_NoSharedState ==
    lastReq # NoReq =>
        /\ lastReq.api_key = clients[lastReq.by].api_key
        /\ lastReq.url \in {clients[lastReq.by].base_url,
                            clients[lastReq.by].query_url}

\* C17: in example_batch_processing every create_video_task is made before
\* the first poll; a poll is only made in the waiting loop, for the handle
\* the loop is at, after the waits of all earlier handles have ended, and the
\* loop only moves forward; the handles waited on are exactly the task ids
\* the successful submissions returned, in submission order, so a failed
\* submission is never polled; and the function ends having waited on every
\* handle, however the earlier waits ended.
C17_SequentialWaits ==
    /\ [][submits' = submits + 1 =>
            (netCalls = submits /\ polledIds = {} /\ batch.phase = "create")]_vars
    /\ [][polls' = polls + 1 =>
            /\ batch.phase = "wait"
            /\ Len(batch.created) = NumTasks /\ submits = NumTasks
            /\ batch.k \in 1..Len(batch.task_ids)
            /\ task_id = batch.task_ids[batch.k]
            /\ Len(batch.ended) = batch.k - 1]_vars
    /\ [][batch'.k >= batch.k]_vars
    /\ [](batch.task_ids = SelectSeq(batch.created, LAMBDA t : t # NoTask))
    /\ [](polledIds \subseteq
            {batch.task_ids[j] : j \in 1..Len(batch.task_ids)})
    /\ [](batch.phase = "finished" =>
            /\ Len(batch.created) = NumTasks
            /\ Len(batch.ended) = Len(batch.task_ids))

C17_Witness ==
    /\ batch.phase = "finished"
    /\ batch.created = <<"T2", "T1">> /\ batch.task_ids = <<"T2", "T1">>
    /\ IsTimeout(batch.ended[1])
    /\ batch.ended[2].kind = "return"
    /\ polledIds = {"T1", "T2"}

\* C25: in wait_for_completion polls and sleeps alternate.  Before a poll as
\* many sleeps as polls have been made; a poll that saw no terminal status
\* is followed by one sleep, which lasts check_interval and leads back to
\* the loop condition; a call that ended with a result, the task-failed
\* error or a transport error has slept once less than it polled, and a call
\* that ended with the timeout has slept as often as it polled, so its last
\* step before the timeout was a sleep, not a poll.
C25_PollsAndSleepsAlternate ==
    /\ []((entry \in {"wait", "generate"} /\ family # "qwen") =>
            /\ pc \in {"check", "poll"} => sleeps = polls
            /\ pc = "sleep" => (sleeps = polls - 1 /\ ~IsTerminal(result))
            /\ (pc = "done" /\ polls > 0 /\ ~IsTimeout(outcome)) =>
                  sleeps = polls - 1
            /\ (pc = "done" /\ (outcome.kind = "return"
                                 \/ IsRemoteFailure(outcome))) => polls > 0
            /\ IsTimeout(outcome) => sleeps = polls)
    /\ [][sleeps' # sleeps =>
            /\ sleeps' = sleeps + 1
            /\ pc = "sleep" /\ pc' = "check"
            /\ now' = now + check_interval
            /\ polls' = polls]_vars
    /\ [][polls' # polls =>
            (polls' = polls + 1 /\ sleeps' = sleeps /\ sleeps = polls)]_vars

C25_Witness ==
    /\ entry = "wait" /\ pc = "done" /\ IsTimeout(outcome)
    /\ polls = 2 /\ sleeps = 2
    /\ result = NoOutput

\* C26: a poll that observes FAILED with no message field ends the call at
\* once with the task-failed exception whose text is the fixed prefix
\* followed by the default reason "unknown error"; it is neither returned as
\* a result nor polled again.
C26_FailedWithoutMessage ==
    (result.kind = "body" /\ result.hasOutput /\ result.hasStatus
     /\ result.task_status = "FAILED" /\ ~result.hasMessage) =>
        /\ pc = "done"
        /\ outcome.kind = "raise" /\ outcome.exc = "Exception"
        /\ outcome.text = <<"task failed: ", "unknown error">>

C26_Witness ==
    /\ entry = "generate" /\ result = FailedNoMessage
    /\ pc = "done" /\ IsRemoteFailure(outcome)
    /\ outcome.text[2] = "unknown error"
    /\ polls = 2 /\ sleeps = 1

\* C22: qwen-image generate_image raises ValueError before any API call when
\* an argument is out of range; after validation it never raises and
\* returns success False with a non-empty error text on every failure, and
\* success True only together with a non-empty image_url.
C22_QwenErrorsNonEmpty ==
    (family = "qwen" /\ pc = "done") =>
        IF QwenValidate(prompt, request.negative_prompt.len, request.size,
                        request.n) # <<>>
        THEN /\ outcome.kind = "raise" /\ outcome.exc = "ValueError"
             /\ netCalls = 0 /\ ~qret.returned
        ELSE /\ outcome.kind = "none" /\ netCalls = 1 /\ qret.returned
             /\ qret.success => qret.image_url # ""
             /\ ~qret.success => qret.error # ""

\* C22 amended: as above, except for the error text of a failure that is an
\* exception raised by the SDK call: that text is str(e) of the exception,
\* which is empty for an exception without a message.  The failures the
\* function detects itself (non-OK status, missing choices, message.content
\* or image entry) carry one of its own, non-empty, texts.
C22_QwenErrorValues ==
    (family = "qwen" /\ pc = "done") =>
        IF \/ prompt > 800
           \/ request.negative_prompt.len > 500
           \/ request.size \notin QwenSizes
           \/ request.n # 1
        THEN /\ outcome.kind = "raise" /\ outcome.exc = "ValueError"
             /\ outcome.text # <<>>
             /\ netCalls = 0 /\ ~sent.posted /\ ~qret.returned
        ELSE /\ outcome.kind = "none" /\ netCalls = 1 /\ qret.returned
             /\ qret.success => (qret.image_url # "" /\ qret.error = "")
             /\ ~qret.success =>
                  /\ qret.image_url = ""
                  /\ netFailure = "" => qret.error # ""
                  /\ netFailure # "" => qret.error \in ExceptionTexts

C22_Witness ==
    /\ family = "qwen" /\ pc = "done" /\ netCalls = 1
    /\ qret.returned /\ ~qret.success
    /\ qret.error = "no image URL in response"
    /\ outcome.kind = "none"

\* C21: the data create_video_task posts holds model, function and prompt,
\* and besides them exactly the supplied keyword arguments that belong to
\* the given function, each with the supplied value and in its place (input
\* or parameters); every other keyword argument is dropped; for a function
\* that is none of the five the data holds nothing more and parameters is
\* empty, and the request is posted all the same.
C21_VideoPayloadByFunction ==
    LET own ==
          [f \in FunctionInputs |->
             CASE f = "image_reference" ->
                    [input |-> {"ref_images_url"},
                     parameters |-> {"obj_or_bg", "size"}]
               [] f = "video_repainting" ->
                    [input |-> {"video_url"},
                     parameters |-> {"control_condition"}]
               [] f = "video_edit" ->
                    [input |-> {"video_url", "mask_url"}, parameters |-> {}]
               [] f = "video_extension" ->
                    [input |-> {"first_frame_image"},
                     parameters |-> {"duration"}]
               [] f = "video_expansion" ->
                    [input |-> {"video_url"},
                     parameters |-> {"expansion_ratio"}]
               [] OTHER -> [input |-> {}, parameters |-> {}]]
        f == video.function
        d == video.data
    IN
    video.phase = "posted" =>
        /\ video.posted
        /\ d.model = "wanx2.1-vace-plus" /\ d.function = f
        /\ d.prompt = BATCH_PROMPT
        /\ d.input = {<<k, <<"value of", k>>>> :
                        k \in own[f].input \cap video.kwargs}
        /\ d.parameters = {<<k, <<"value of", k>>>> :
                             k \in own[f].parameters \cap video.kwargs}

C21_Witness ==
    /\ video.phase = "posted" /\ video.posted
    /\ video.function = "video_edit"
    /\ video.kwargs = {"video_url", "mask_url", "size", "control_condition"}
    /\ video.data.input = {<<"video_url", <<"value of", "video_url">>>>,
                           <<"mask_url", <<"value of", "mask_url">>>>}
    /\ video.data.parameters = {}

\* C23: synthesize_speech with a text longer than 500 characters, a voice or
\* a format outside the tables, a volume outside [0.1, 2.0] or a speech or
\* pitch rate outside [0.5, 2.0] raises ValueError having made no HTTP call
\* and returns nothing; with every argument in range it does not raise and
\* makes exactly one POST.
C23_TTSValidationBeforeNetwork ==
    LET a == tts.args
        inRange ==
            /\ a.text <= 500
            /\ a.voice \in {"Cherry", "Chelsie", "zhichu", "zhixiaobai",
                            "zhixiaoxia", "zhimiao", "zhiyan", "zhiyuan",
                            "zhiyun", "zhishuo", "zhiwei", "zhihao"}
            /\ a.format \in {"wav", "mp3", "pcm"}
            /\ a.volume \in 1..20
            /\ a.speech_rate \in 5..20
            /\ a.pitch_rate \in 5..20
    IN
    tts.phase \notin {"none", "called"} =>
        IF inRange
        THEN /\ tts.phase \in {"get", "returned"}
             /\ tts.posts = 1
             /\ tts.outcome.kind = "none"
        ELSE /\ tts.phase = "raised"
             /\ tts.outcome.kind = "raise"
             /\ tts.outcome.exc = "ValueError"
             /\ tts.posts = 0 /\ tts.gets = 0
             /\ ~tts.ret.returned

C23_Witness ==
    /\ tts.phase = "raised" /\ tts.outcome.exc = "ValueError"
    /\ tts.args.text = 500 /\ tts.args.voice = "zhihao"
    /\ tts.args.format = "pcm" /\ tts.args.volume = 20
    /\ tts.args.speech_rate = 5 /\ tts.args.pitch_rate = 21
    /\ tts.posts = 0

\* C27: the data synthesize_speech posts always holds the model, the text
\* and the voice; it has a 'parameters' entry exactly when one of format,
\* sample_rate, volume, speech_rate, pitch_rate differs from wav, 22050,
\* 1.0, 1.0, 1.0, and that entry then holds exactly the options that
\* differ, each with the value passed.
C27_TTSParametersOnlyNonDefault ==
    LET a == tts.args
        d == tts.data
        differs ==
            {k \in {"format"} : a.format # "wav"}
            \cup {k \in {"sample_rate"} : a.sample_rate # 22050}
            \cup {k \in {"volume"} : a.volume # 10}
            \cup {k \in {"speech_rate"} : a.speech_rate # 10}
            \cup {k \in {"pitch_rate"} : a.pitch_rate # 10}
    IN
    tts.posts > 0 =>
        /\ d.model = "qwen-tts"
        /\ d.input.text = a.text /\ d.input.voice = a.voice
        /\ d.hasParameters <=> differs # {}
        /\ d.hasParameters =>
              /\ DOMAIN d.parameters = differs
              /\ \A k \in differs : d.parameters[k] = a[k]

C27_Witness ==
    /\ tts.posts = 1
    /\ tts.args.format = "wav" /\ tts.args.sample_rate = 16000
    /\ tts.args.volume = 20 /\ tts.args.speech_rate = 10
    /\ tts.args.pitch_rate = 10
    /\ tts.data.hasParameters
    /\ DOMAIN tts.data.parameters = {"sample_rate", "volume"}
    /\ tts.data.parameters["volume"] = 20

\* C29: once its arguments passed validation synthesize_speech does not
\* raise; a transport failure and a response without output, without audio
\* or with neither a url nor non-empty data give success False with
\* audio_data None, as does every other failure; success True comes only
\* with an audio_data that is not None; and a response with both a url and
\* inline data is answered from the url: the audio is downloaded and the
\* downloaded bytes are the ones returned.
C29_TTSFailuresReturned ==
    LET r == tts.response
        ret == tts.ret
        malformed ==
            \/ r.stage \in {"exception", "http_error", "not_json",
                            "no_output", "no_audio"}
            \/ r.stage = "audio" /\ ~r.hasUrl /\ r.data \in {"absent", ""}
        both == r.stage = "audio" /\ r.hasUrl /\ r.data \notin {"absent", ""}
    IN
    /\ tts.posts > 0 => tts.outcome.kind = "none"
    /\ tts.phase = "get" => tts.posts = 1 /\ r.hasUrl
    /\ tts.phase = "returned" =>
          /\ ret.returned
          /\ malformed => ~ret.success /\ tts.gets = 0
          /\ tts.download.stage \in {"exception", "http_error"}
                => ~ret.success
          /\ ~ret.success => ret.audio_data = [isNone |-> TRUE, bytes |-> ""]
                             /\ ret.error # <<>>
          /\ ret.success => ~ret.audio_data.isNone
          /\ both => /\ tts.gets = 1
                     /\ ret.success =>
                           /\ tts.download.stage = "ok"
                           /\ ret.audio_data.bytes = tts.download.content
                           /\ ret.audio_url # ""

C29_Witness ==
    /\ tts.phase = "returned" /\ tts.ret.success
    /\ tts.response.hasUrl /\ tts.response.data = "QUJD"
    /\ tts.gets = 1 /\ tts.download.content = "RIFF"
    /\ tts.ret.audio_data = [isNone |-> FALSE, bytes |-> "RIFF"]

\* C24: upload_file validates the file, then requests the policy, then posts
\* to object storage, in that order; an invalid file leads to no policy
\* request, and no POST is made unless the policy request gave a policy;
\* upload_file always returns: success False with a non-empty error text
\* after a failure at any step, and success True, with an oss:// URL, only
\* once the POST was answered 200.
C24_UploadStepsInOrder ==
    LET f == upload.file_paths[upload.i]
        uploadable ==
            /\ f.exists /\ f.is_file /\ f.size <= 104857600
            /\ f.suffix \in {".png", ".PNG", ".mp4", ".wav"}
        r == upload.result
    IN
    upload.phase \in {"policy", "oss", "loop", "returned"}
    /\ upload.file_paths # <<>> =>
        /\ upload.trace \in {<<"validate">>, <<"validate", "policy">>,
                             <<"validate", "policy", "post">>}
        /\ ~uploadable => upload.trace = <<"validate">>
        /\ Len(upload.trace) = 3 => upload.policy = "policy"
        /\ upload.phase = "policy" => upload.trace = <<"validate">>
        /\ upload.phase = "oss" =>
              upload.trace = <<"validate", "policy">>
              /\ upload.policy \in {"policy", "no upload_dir"}
        /\ upload.phase \in {"loop", "returned"} =>
              /\ r.returned
              /\ r.success <=>
                    (Len(upload.trace) = 3 /\ upload.post = "status 200")
              /\ r.success =>
                    /\ uploadable
                    /\ r.url[1] = "oss://" /\ r.url[Len(r.url)] = f.name
              /\ ~r.success =>
                    /\ r.url = <<>>
                    /\ Len(r.error) = 2 /\ r.error[1] # ""

C24_Witness ==
    /\ upload.entry = "upload_file" /\ upload.phase = "returned"
    /\ upload.file_paths[1].name = "B.PNG"
    /\ upload.trace = <<"validate", "policy", "post">>
    /\ upload.post = "status 403"
    /\ ~upload.result.success /\ upload.result.returned
    /\ upload.gets = 1 /\ upload.posts = 1

\* C28: upload_multiple_files returns one result for every path, in the
\* order of the paths and each carrying its path; every path is attempted,
\* once and in order, whatever became of the ones before it; and the
\* success count it reports is the number of results with success True.
C28_OneResultPerPath ==
    LET n == Len(upload.file_paths) IN
    upload.entry = "upload_multiple_files" =>
        /\ Len(upload.results) <= n
        /\ \A k \in 1..Len(upload.results) :
              /\ upload.results[k].file_path = upload.file_paths[k].name
              /\ upload.results[k].result.returned
        /\ upload.attempts \in {[k \in 1..m |-> k] : m \in 0..n}
        /\ upload.success_count =
              Cardinality({k \in 1..Len(upload.results) :
                             upload.results[k].result.success})
        /\ upload.phase = "returned" =>
              /\ Len(upload.results) = n
              /\ upload.attempts = [k \in 1..n |-> k]
              /\ upload.reported =
                    Cardinality({k \in 1..n :
                                   upload.results[k].result.success})

C28_Witness ==
    /\ upload.entry = "upload_multiple_files" /\ upload.phase = "returned"
    /\ Len(upload.file_paths) = 2
    /\ upload.file_paths[1].name = "gone.wav"
    /\ upload.file_paths[2].name = "a.png"
    /\ ~upload.results[1].result.success
    /\ upload.results[2].result.success
    /\ upload.results[2].file_path = "a.png"
    /\ upload.reported = 1

\* C30: run_all_checks runs the four checks, ffmpeg tools, environment
\* variable, Python environment and packages, each once and in that order
\* whatever the earlier ones found, and returns the conjunction of the
\* ffmpeg, environment-variable and package verdicts; neither the virtual
\* environment nor the warnings change what it returns; on a checker that
\* was just constructed it returns True exactly when the errors list is
\* empty, which is when both tools are found, the key is set and
\* requirements.txt is read with every package importable; and main exits
\* with 0 exactly when it returned True.
C30_VerdictOfAllChecks ==
    LET w == checker.world
        healthy ==
            /\ w.ffmpeg /\ w.ffprobe
            /\ w.api_key = "sk-key"
            /\ w.requirements.state = "read"
            /\ \A k \in DOMAIN w.requirements.packages :
                  w.requirements.packages[k].name = "requests"
    IN
    /\ checker.ran \in {SubSeq(<<"ffmpeg", "env", "python", "packages">>,
                               1, n) : n \in 0..4}
    /\ checker.returned =>
          /\ checker.ran = <<"ffmpeg", "env", "python", "packages">>
          /\ checker.all_ok <=> (/\ checker.ffmpeg_ok
                                 /\ checker.env_ok
                                 /\ checker.packages_ok)
          /\ checker.python_ok
          /\ checker.fresh => (checker.all_ok <=> checker.errors = <<>>)
          /\ checker.fresh => (checker.all_ok <=> healthy)
    /\ checker.exited =>
          /\ checker.returned
          /\ checker.exit_code \in {0, 1}
          /\ checker.exit_code = 0 <=> checker.all_ok

C30_Witness ==
    /\ checker.entry = "main" /\ checker.exited /\ checker.exit_code = 1
    /\ checker.world.ffmpeg /\ ~checker.world.ffprobe
    /\ checker.world.api_key = "sk-key" /\ ~checker.world.in_venv
    /\ checker.ran = <<"ffmpeg", "env", "python", "packages">>
    /\ Len(checker.errors) = 2 /\ Len(checker.warnings) = 1
    /\ ~checker.ffmpeg_ok /\ checker.env_ok /\ ~checker.packages_ok

=============================================================================
